---- MODULE Spec2Model ----
(***************************************************************************)
(* A model of the B+tree of examples/btree/btree.go: the data and index    *)
(* pages, the Tree operations (Get, Set, Put, Delete, Clear, First, Last,  *)
(* Len, Seek, SeekFirst, SeekLast) with the rebalancer they call, and the   *)
(* Enumerator (Next, Prev).                                                *)
(*                                                                         *)
(* Pages live in two heaps, one per page kind; a pointer is the index of   *)
(* the page in its heap and 0 is the nil pointer.  An interface{} holding  *)
(* a page is a record [kind, id].  The fixed arrays of a page are          *)
(* functions on 0 .. size-1, indexed as in the source.                     *)
(***************************************************************************)
EXTENDS Integers, Sequences, FiniteSets, TLC

VARIABLES tree, leaves, indexes, enum, last, ref, obs

vars == <<tree, leaves, indexes, enum, last, ref, obs>>

\* The fan-outs.  The source sets kx = 128 and kd = 64; the model keeps every
\* expression over them as written and scales the two numbers down so that
\* splits, rotations and merges of both page kinds happen within a few keys.
kx == 2
kd == 1

\* The keys and values the calls are made with.
MaxKey == 5
MaxVal == 2

Keys == 1 .. MaxKey
Vals == 1 .. MaxVal

Min(a, b) == IF a < b THEN a ELSE b

\* ------------------------------------------------------------------ pages

Nil == 0

NilRef == [kind |-> "nil", id |-> 0]
DRef(q) == IF q = Nil THEN NilRef ELSE [kind |-> "d", id |-> q]
XRef(q) == IF q = Nil THEN NilRef ELSE [kind |-> "x", id |-> q]

\* The R/O zero values.
zde == [k |-> 0, v |-> 0]
zd == [c |-> 0, d |-> [j \in 0 .. 2 * kd |-> zde], n |-> Nil, p |-> Nil]
zxe == [ch |-> NilRef, sep |-> Nil]
zx == [c |-> 0, x |-> [j \in 0 .. 2 * kx + 1 |-> zxe]]

\* cmp of the examples: a - b.
cmp(a, b) == a - b

\* Go's copy(dst[dlo:dhi], src[slo:shi]): min(len(dst), len(src)) elements,
\* read before any is written.
copy(dst, dlo, dhi, src, slo, shi) ==
    LET n == Min(dhi - dlo, shi - slo) IN
    [j \in DOMAIN dst |->
        IF j >= dlo /\ j < dlo + n THEN src[slo + (j - dlo)] ELSE dst[j]]

DLen == 2 * kd + 1
XLen == 2 * kx + 2

\* &d{} and &x{}: a new page at the end of its heap.
newD(m) == [m |-> [m EXCEPT !.d = Append(@, zd)], q |-> Len(m.d) + 1]
allocX(m) == [m |-> [m EXCEPT !.x = Append(@, zx)], q |-> Len(m.x) + 1]

\* -------------------------------------------------------------------- x

newX(m, ch0) ==
    LET first0(a) == [m |-> [a.m EXCEPT !.x[a.q].x[0].ch = ch0], q |-> a.q]
    IN  first0(allocX(m))

xExtract(m, q, i) ==
    LET c == m.x[q].c - 1
        shifted(a) == copy(a, i, XLen, a, i + 1, c + 1)
        closed(a) == [a EXCEPT ![c] = [ch |-> a[c + 1].ch, sep |-> Nil],
                               ![c + 1] = zxe]
    IN  IF i < c
        THEN [m EXCEPT !.x[q] = [c |-> c, x |-> closed(shifted(@.x))]]
        ELSE [m EXCEPT !.x[q].c = c]

xInsert(m, q, i, sep, ch) ==
    LET c == m.x[q].c
        moved(a) == [a EXCEPT ![c + 1].ch = a[c].ch]
        shifted(a) == copy(a, i + 2, XLen, a, i + 1, c)
        carried(a) == [a EXCEPT ![i + 1].sep = a[i].sep]
        opened(a) == IF i < c THEN carried(shifted(moved(a))) ELSE a
        filled(a) == [a EXCEPT ![i].sep = sep, ![i + 1].ch = ch]
    IN  [m EXCEPT !.x[q] = [c |-> c + 1, x |-> filled(opened(@.x))]]

\* The ch of a sibling is cast to *d without a check.
siblings(m, q, i) ==
    [l |-> IF i >= 0 /\ i > 0 THEN m.x[q].x[i - 1].ch.id ELSE Nil,
     r |-> IF i >= 0 /\ i < m.x[q].c THEN m.x[q].x[i + 1].ch.id ELSE Nil]

\* -------------------------------------------------------------------- d

mvL(m, l, r, c) ==
    [m EXCEPT !.d[l].d = copy(@, m.d[l].c, DLen, m.d[r].d, 0, c),
              !.d[l].c = @ + c,
              !.d[r].d = copy(@, 0, DLen, @, c, m.d[r].c),
              !.d[r].c = @ - c]

mvR(m, l, r, c) ==
    LET opened(a) == copy(a, c, DLen, a, 0, m.d[r].c)
        filled(a) == copy(a, 0, c, m.d[l].d, m.d[l].c - c, DLen)
    IN  [m EXCEPT !.d[r].d = filled(opened(@)), !.d[r].c = @ + c,
                  !.d[l].c = @ - c]

\* ----------------------------------------------------------------- Tree

TreeNew ==
    [t |-> [c |-> 0, first |-> Nil, last |-> Nil, r |-> NilRef, ver |-> 0],
     d |-> <<>>, x |-> <<>>]

RECURSIVE findX(_, _, _, _, _)
findX(m, q, k, l, h) ==
    IF l <= h
    THEN LET mi == (l + h) \div 2
             branch(r) == IF r > 0 THEN findX(m, q, k, mi + 1, h)
                          ELSE IF r = 0 THEN [i |-> mi, ok |-> TRUE]
                          ELSE findX(m, q, k, l, mi - 1)
         IN  branch(cmp(k, m.d[m.x[q].x[mi].sep].d[0].k))
    ELSE [i |-> l, ok |-> FALSE]

RECURSIVE findD(_, _, _, _, _)
findD(m, q, k, l, h) ==
    IF l <= h
    THEN LET mi == (l + h) \div 2
             branch(r) == IF r > 0 THEN findD(m, q, k, mi + 1, h)
                          ELSE IF r = 0 THEN [i |-> mi, ok |-> TRUE]
                          ELSE findD(m, q, k, l, mi - 1)
         IN  branch(cmp(k, m.d[q].d[mi].k))
    ELSE [i |-> l, ok |-> FALSE]

\* find with a fault: a key that equals a separator of an index page is
\* reported as not found there.
findLeafOnly(m, q, k) ==
    IF q.kind = "x"
    THEN [i |-> findX(m, q.id, k, 0, m.x[q.id].c - 1).i, ok |-> FALSE]
    ELSE IF q.kind = "d" THEN findD(m, q.id, k, 0, m.d[q.id].c - 1)
    ELSE [i |-> 0, ok |-> FALSE]

find(m, q, k) ==
    IF q.kind = "x" THEN findX(m, q.id, k, 0, m.x[q.id].c - 1)
    ELSE IF q.kind = "d" THEN findD(m, q.id, k, 0, m.d[q.id].c - 1)
    ELSE [i |-> 0, ok |-> FALSE]

RECURSIVE GetLoop(_, _, _)
GetLoop(m, q, k) ==
    LET at(f) ==
            IF f.ok
            THEN IF q.kind = "x"
                 THEN [v |-> m.d[m.x[q.id].x[f.i].sep].d[0].v, ok |-> TRUE]
                 ELSE [v |-> m.d[q.id].d[f.i].v, ok |-> TRUE]
            ELSE IF q.kind = "x"
                 THEN GetLoop(m, m.x[q.id].x[f.i].ch, k)
                 ELSE [v |-> 0, ok |-> FALSE]
    IN  at(find(m, q, k))

Get(m, k) ==
    IF m.t.r = NilRef THEN [v |-> 0, ok |-> FALSE] ELSE GetLoop(m, m.t.r, k)

\* insert with a fault: t.ver is not incremented.
insertKeepVer(m, q, i, k, v) ==
    LET c == m.d[q].c
        opened(a) == IF i < c THEN copy(a, i + 1, DLen, a, i, c) ELSE a
        filled(a) == [a EXCEPT ![i] = [k |-> k, v |-> v]]
    IN  [m EXCEPT !.d[q].d = filled(opened(@)), !.d[q].c = c + 1,
                  !.t.c = @ + 1]

\* insert with a fault: t.c is not incremented.
insertKeepCount(m, q, i, k, v) ==
    LET c == m.d[q].c
        opened(a) == IF i < c THEN copy(a, i + 1, DLen, a, i, c) ELSE a
        filled(a) == [a EXCEPT ![i] = [k |-> k, v |-> v]]
    IN  [m EXCEPT !.t.ver = @ + 1, !.d[q].d = filled(opened(@)),
                  !.d[q].c = c + 1]

insert(m, q, i, k, v) ==
    LET c == m.d[q].c
        opened(a) == IF i < c THEN copy(a, i + 1, DLen, a, i, c) ELSE a
        filled(a) == [a EXCEPT ![i] = [k |-> k, v |-> v]]
    IN  [m EXCEPT !.t.ver = @ + 1, !.d[q].d = filled(opened(@)),
                  !.d[q].c = c + 1, !.t.c = @ + 1]

TreeLen(m) == m.t.c

\* split with a fault: t.last is not moved to the new leaf.
splitKeepLast(m, p, q, pi, i, k, v) ==
    LET linked(a, r) ==
            IF a.d[q].n # Nil
            THEN [a EXCEPT !.d[r].n = a.d[q].n, !.d[a.d[q].n].p = r]
            ELSE a
        chained(a, r) == [a EXCEPT !.d[q].n = r, !.d[r].p = q]
        halved(a, r) ==
            [a EXCEPT !.d[r].d = copy(@, 0, DLen, a.d[q].d, kd, 2 * kd),
                      !.d[q].d = [j \in DOMAIN @ |->
                                     IF j >= kd THEN zde ELSE @[j]],
                      !.d[q].c = kd, !.d[r].c = kd]
        rooted(nx, r) ==
            [xInsert(nx.m, nx.q, 0, r, DRef(r)) EXCEPT !.t.r = XRef(nx.q)]
        raised(a, r) ==
            IF pi >= 0 THEN xInsert(a, p, pi, r, DRef(r))
            ELSE rooted(newX(a, DRef(q)), r)
        placed(a, r) ==
            IF i > kd THEN insert(a, r, i - kd, k, v) ELSE insert(a, q, i, k, v)
        made(n) ==
            placed(raised(halved(chained(linked(n.m, n.q), n.q), n.q), n.q),
                   n.q)
    IN  made(newD([m EXCEPT !.t.ver = @ + 1]))

\* split with a fault: the new leaf is given the lower half of the entries.
splitCopyLow(m, p, q, pi, i, k, v) ==
    LET linked(a, r) ==
            IF a.d[q].n # Nil
            THEN [a EXCEPT !.d[r].n = a.d[q].n, !.d[a.d[q].n].p = r]
            ELSE [a EXCEPT !.t.last = r]
        chained(a, r) == [a EXCEPT !.d[q].n = r, !.d[r].p = q]
        halved(a, r) ==
            [a EXCEPT !.d[r].d = copy(@, 0, DLen, a.d[q].d, 0, kd),
                      !.d[q].d = [j \in DOMAIN @ |->
                                     IF j >= kd THEN zde ELSE @[j]],
                      !.d[q].c = kd, !.d[r].c = kd]
        rooted(nx, r) ==
            [xInsert(nx.m, nx.q, 0, r, DRef(r)) EXCEPT !.t.r = XRef(nx.q)]
        raised(a, r) ==
            IF pi >= 0 THEN xInsert(a, p, pi, r, DRef(r))
            ELSE rooted(newX(a, DRef(q)), r)
        placed(a, r) ==
            IF i > kd THEN insert(a, r, i - kd, k, v) ELSE insert(a, q, i, k, v)
        made(n) ==
            placed(raised(halved(chained(linked(n.m, n.q), n.q), n.q), n.q),
                   n.q)
    IN  made(newD([m EXCEPT !.t.ver = @ + 1]))

\* split with a fault: the new leaf is not linked back to the leaf it was
\* split from.
splitNoBack(m, p, q, pi, i, k, v) ==
    LET linked(a, r) ==
            IF a.d[q].n # Nil
            THEN [a EXCEPT !.d[r].n = a.d[q].n, !.d[a.d[q].n].p = r]
            ELSE [a EXCEPT !.t.last = r]
        chained(a, r) == [a EXCEPT !.d[q].n = r]
        halved(a, r) ==
            [a EXCEPT !.d[r].d = copy(@, 0, DLen, a.d[q].d, kd, 2 * kd),
                      !.d[q].d = [j \in DOMAIN @ |->
                                     IF j >= kd THEN zde ELSE @[j]],
                      !.d[q].c = kd, !.d[r].c = kd]
        rooted(nx, r) ==
            [xInsert(nx.m, nx.q, 0, r, DRef(r)) EXCEPT !.t.r = XRef(nx.q)]
        raised(a, r) ==
            IF pi >= 0 THEN xInsert(a, p, pi, r, DRef(r))
            ELSE rooted(newX(a, DRef(q)), r)
        placed(a, r) ==
            IF i > kd THEN insert(a, r, i - kd, k, v) ELSE insert(a, q, i, k, v)
        made(n) ==
            placed(raised(halved(chained(linked(n.m, n.q), n.q), n.q), n.q),
                   n.q)
    IN  made(newD([m EXCEPT !.t.ver = @ + 1]))

split(m, p, q, pi, i, k, v) ==
    LET linked(a, r) ==
            IF a.d[q].n # Nil
            THEN [a EXCEPT !.d[r].n = a.d[q].n, !.d[a.d[q].n].p = r]
            ELSE [a EXCEPT !.t.last = r]
        chained(a, r) == [a EXCEPT !.d[q].n = r, !.d[r].p = q]
        halved(a, r) ==
            [a EXCEPT !.d[r].d = copy(@, 0, DLen, a.d[q].d, kd, 2 * kd),
                      !.d[q].d = [j \in DOMAIN @ |->
                                     IF j >= kd THEN zde ELSE @[j]],
                      !.d[q].c = kd, !.d[r].c = kd]
        rooted(nx, r) ==
            [xInsert(nx.m, nx.q, 0, r, DRef(r)) EXCEPT !.t.r = XRef(nx.q)]
        raised(a, r) ==
            IF pi >= 0 THEN xInsert(a, p, pi, r, DRef(r))
            ELSE rooted(newX(a, DRef(q)), r)
        placed(a, r) ==
            IF i > kd THEN insert(a, r, i - kd, k, v) ELSE insert(a, q, i, k, v)
        made(n) ==
            placed(raised(halved(chained(linked(n.m, n.q), n.q), n.q), n.q),
                   n.q)
    IN  made(newD([m EXCEPT !.t.ver = @ + 1]))

\* splitX with a fault: the page is cut at its first separator, not at kx.
splitXEarly(m, p, pp, pi, i) ==
    LET q == pp
        halved(a, r) ==
            [a EXCEPT !.x[r].x = copy(@, 0, XLen, a.x[q].x, 1, XLen),
                      !.x[q].c = 0, !.x[r].c = 2 * kx]
        rooted(nx, a, r) ==
            [xInsert(nx.m, nx.q, 0, a.x[q].x[0].sep, XRef(r))
                EXCEPT !.t.r = XRef(nx.q)]
        raised(a, r) ==
            IF pi >= 0 THEN xInsert(a, p, pi, a.x[q].x[0].sep, XRef(r))
            ELSE rooted(newX(a, XRef(q)), a, r)
        unsep(a) == [a EXCEPT !.x[q].x[0].sep = Nil]
        wiped(a) ==
            [a EXCEPT !.x[q].x =
                [j \in DOMAIN @ |-> IF j >= 1 THEN zxe ELSE @[j]]]
        made(n) == wiped(unsep(raised(halved(n.m, n.q), n.q)))
        turned(n) ==
            IF i > 0
            THEN [m |-> made(n), pp |-> n.q, i |-> i - 1]
            ELSE [m |-> made(n), pp |-> q, i |-> i]
    IN  turned(allocX([m EXCEPT !.t.ver = @ + 1]))

\* splitX with a fault: the descent goes on in the left half even when the
\* search position is in the right one.
splitXStayLeft(m, p, pp, pi, i) ==
    LET q == pp
        halved(a, r) ==
            [a EXCEPT !.x[r].x = copy(@, 0, XLen, a.x[q].x, kx + 1, XLen),
                      !.x[q].c = kx, !.x[r].c = kx]
        rooted(nx, a, r) ==
            [xInsert(nx.m, nx.q, 0, a.x[q].x[kx].sep, XRef(r))
                EXCEPT !.t.r = XRef(nx.q)]
        raised(a, r) ==
            IF pi >= 0 THEN xInsert(a, p, pi, a.x[q].x[kx].sep, XRef(r))
            ELSE rooted(newX(a, XRef(q)), a, r)
        unsep(a) == [a EXCEPT !.x[q].x[kx].sep = Nil]
        wiped(a) ==
            [a EXCEPT !.x[q].x =
                [j \in DOMAIN @ |-> IF j >= kx + 1 THEN zxe ELSE @[j]]]
        made(n) == wiped(unsep(raised(halved(n.m, n.q), n.q)))
        turned(n) ==
            [m |-> made(n), pp |-> q, i |-> IF i > kx THEN kx ELSE i]
    IN  turned(allocX([m EXCEPT !.t.ver = @ + 1]))

\* splitX with a fault: the new root takes the first child of the new page
\* in place of the new page.
splitXLowRoot(m, p, pp, pi, i) ==
    LET q == pp
        halved(a, r) ==
            [a EXCEPT !.x[r].x = copy(@, 0, XLen, a.x[q].x, kx + 1, XLen),
                      !.x[q].c = kx, !.x[r].c = kx]
        rooted(nx, a, r) ==
            [xInsert(nx.m, nx.q, 0, a.x[q].x[kx].sep, a.x[r].x[0].ch)
                EXCEPT !.t.r = XRef(nx.q)]
        raised(a, r) ==
            IF pi >= 0 THEN xInsert(a, p, pi, a.x[q].x[kx].sep, XRef(r))
            ELSE rooted(newX(a, XRef(q)), a, r)
        unsep(a) == [a EXCEPT !.x[q].x[kx].sep = Nil]
        wiped(a) ==
            [a EXCEPT !.x[q].x =
                [j \in DOMAIN @ |-> IF j >= kx + 1 THEN zxe ELSE @[j]]]
        made(n) == wiped(unsep(raised(halved(n.m, n.q), n.q)))
        turned(n) ==
            IF i > kx
            THEN [m |-> made(n), pp |-> n.q, i |-> i - (kx + 1)]
            ELSE [m |-> made(n), pp |-> q, i |-> i]
    IN  turned(allocX([m EXCEPT !.t.ver = @ + 1]))

splitX(m, p, pp, pi, i) ==
    LET q == pp
        halved(a, r) ==
            [a EXCEPT !.x[r].x = copy(@, 0, XLen, a.x[q].x, kx + 1, XLen),
                      !.x[q].c = kx, !.x[r].c = kx]
        rooted(nx, a, r) ==
            [xInsert(nx.m, nx.q, 0, a.x[q].x[kx].sep, XRef(r))
                EXCEPT !.t.r = XRef(nx.q)]
        raised(a, r) ==
            IF pi >= 0 THEN xInsert(a, p, pi, a.x[q].x[kx].sep, XRef(r))
            ELSE rooted(newX(a, XRef(q)), a, r)
        unsep(a) == [a EXCEPT !.x[q].x[kx].sep = Nil]
        wiped(a) ==
            [a EXCEPT !.x[q].x =
                [j \in DOMAIN @ |-> IF j >= kx + 1 THEN zxe ELSE @[j]]]
        made(n) == wiped(unsep(raised(halved(n.m, n.q), n.q)))
        turned(n) ==
            IF i > kx
            THEN [m |-> made(n), pp |-> n.q, i |-> i - (kx + 1)]
            ELSE [m |-> made(n), pp |-> q, i |-> i]
    IN  turned(allocX([m EXCEPT !.t.ver = @ + 1]))

\* overflow with a fault: the right sibling is tried before the left one.
overflowRightFirst(m, p, q, pi, i, k, v) ==
    LET moved(a, l, r) ==
            IF r # Nil /\ a.d[r].c < 2 * kd
            THEN IF i < 2 * kd
                 THEN insert(mvR(a, q, r, 1), q, i, k, v)
                 ELSE insert(a, r, 0, k, v)
            ELSE IF l # Nil /\ a.d[l].c < 2 * kd
            THEN insert(mvL(a, l, q, 1), q, i - 1, k, v)
            ELSE split(a, p, q, pi, i, k, v)
        sided(a, s) == moved(a, s.l, s.r)
    IN  sided([m EXCEPT !.t.ver = @ + 1], siblings(m, p, pi))

overflow(m, p, q, pi, i, k, v) ==
    LET moved(a, l, r) ==
            IF l # Nil /\ a.d[l].c < 2 * kd
            THEN insert(mvL(a, l, q, 1), q, i - 1, k, v)
            ELSE IF r # Nil /\ a.d[r].c < 2 * kd
            THEN IF i < 2 * kd
                 THEN insert(mvR(a, q, r, 1), q, i, k, v)
                 ELSE insert(a, r, 0, k, v)
            ELSE split(a, p, q, pi, i, k, v)
        sided(a, s) == moved(a, s.l, s.r)
    IN  sided([m EXCEPT !.t.ver = @ + 1], siblings(m, p, pi))

RECURSIVE SetLoop(_, _, _, _, _, _)

\* Set's loop with a fault: the overwrite of the value of a key that is
\* present is counted in t.c as an insertion.
SetLoopCountsHit(m, p, q, pi, k, v) ==
    LET down(s) == SetLoop(s.m, s.pp, s.m.x[s.pp].x[s.i].ch, s.i, k, v)
        at(f) ==
            IF f.ok
            THEN IF q.kind = "x"
                 THEN [m EXCEPT !.d[m.x[q.id].x[f.i].sep].d[0].v = v,
                                !.t.c = @ + 1]
                 ELSE [m EXCEPT !.d[q.id].d[f.i].v = v, !.t.c = @ + 1]
            ELSE IF q.kind = "x"
                 THEN down(IF m.x[q.id].c > 2 * kx
                           THEN splitX(m, p, q.id, pi, f.i)
                           ELSE [m |-> m, pp |-> q.id, i |-> f.i])
                 ELSE IF m.d[q.id].c < 2 * kd
                      THEN insert(m, q.id, f.i, k, v)
                      ELSE overflow(m, p, q.id, pi, f.i, k, v)
    IN  at(find(m, q, k))

\* Set's loop with a fault: an index page that holds all the separators it
\* can is not split before the descent goes into it.
SetLoopNoSplit(m, p, q, pi, k, v) ==
    LET down(s) == SetLoop(s.m, s.pp, s.m.x[s.pp].x[s.i].ch, s.i, k, v)
        at(f) ==
            IF f.ok
            THEN IF q.kind = "x"
                 THEN [m EXCEPT !.d[m.x[q.id].x[f.i].sep].d[0].v = v]
                 ELSE [m EXCEPT !.d[q.id].d[f.i].v = v]
            ELSE IF q.kind = "x"
                 THEN down([m |-> m, pp |-> q.id, i |-> f.i])
                 ELSE IF m.d[q.id].c < 2 * kd
                      THEN insert(m, q.id, f.i, k, v)
                      ELSE overflow(m, p, q.id, pi, f.i, k, v)
    IN  at(find(m, q, k))

SetLoop(m, p, q, pi, k, v) ==
    LET down(s) == SetLoop(s.m, s.pp, s.m.x[s.pp].x[s.i].ch, s.i, k, v)
        at(f) ==
            IF f.ok
            THEN IF q.kind = "x"
                 THEN [m EXCEPT !.d[m.x[q.id].x[f.i].sep].d[0].v = v]
                 ELSE [m EXCEPT !.d[q.id].d[f.i].v = v]
            ELSE IF q.kind = "x"
                 THEN down(IF m.x[q.id].c > 2 * kx
                           THEN splitX(m, p, q.id, pi, f.i)
                           ELSE [m |-> m, pp |-> q.id, i |-> f.i])
                 ELSE IF m.d[q.id].c < 2 * kd
                      THEN insert(m, q.id, f.i, k, v)
                      ELSE overflow(m, p, q.id, pi, f.i, k, v)
    IN  at(find(m, q, k))

\* Set with a fault: the leaf made for an empty tree is not stored as t.last.
SetNoLast(m, k, v) ==
    LET rooted(a, z) == [a EXCEPT !.t.r = DRef(z), !.t.first = z]
        made(n) == rooted(insert(n.m, n.q, 0, k, v), n.q)
    IN  IF m.t.r # NilRef
        THEN SetLoop(m, Nil, m.t.r, -1, k, v)
        ELSE made(newD(m))

Set(m, k, v) ==
    LET rooted(a, z) ==
            [a EXCEPT !.t.r = DRef(z), !.t.first = z, !.t.last = z]
        made(n) == rooted(insert(n.m, n.q, 0, k, v), n.q)
    IN  IF m.t.r # NilRef
        THEN SetLoop(m, Nil, m.t.r, -1, k, v)
        ELSE made(newD(m))

\* clr zeroes every page under q; the pages are then garbage.
RECURSIVE clr(_, _)
RECURSIVE clrCh(_, _, _, _)
clrCh(m, xs, i, c) ==
    IF i <= c THEN clrCh(clr(m, xs[i].ch), xs, i + 1, c) ELSE m
clr(m, q) ==
    IF q.kind = "x"
    THEN [clrCh(m, m.x[q.id].x, 0, m.x[q.id].c) EXCEPT !.x[q.id] = zx]
    ELSE IF q.kind = "d" THEN [m EXCEPT !.d[q.id] = zd]
    ELSE m

\* Clear with a fault: t.c is not reset.
ClearKeepCount(m) ==
    IF m.t.r = NilRef
    THEN m
    ELSE [clr(m, m.t.r) EXCEPT !.t.first = Nil, !.t.last = Nil,
                               !.t.r = NilRef, !.t.ver = m.t.ver + 1]

\* Clear with a fault: t.ver is not incremented.
ClearKeepVer(m) ==
    IF m.t.r = NilRef
    THEN m
    ELSE [clr(m, m.t.r) EXCEPT !.t.c = 0, !.t.first = Nil, !.t.last = Nil,
                               !.t.r = NilRef]

\* Clear with a fault: the version counter is incremented on an empty tree
\* too.
ClearAlways(m) ==
    IF m.t.r = NilRef
    THEN [m EXCEPT !.t.ver = @ + 1]
    ELSE [clr(m, m.t.r) EXCEPT !.t.c = 0, !.t.first = Nil, !.t.last = Nil,
                               !.t.r = NilRef, !.t.ver = m.t.ver + 1]

Clear(m) ==
    IF m.t.r = NilRef
    THEN m
    ELSE [clr(m, m.t.r) EXCEPT !.t.c = 0, !.t.first = Nil, !.t.last = Nil,
                               !.t.r = NilRef, !.t.ver = m.t.ver + 1]

\* cat with a fault: after p.extract(pi), p.x[pi].ch is not set to q.
catNoRelink(m, p, q, r, pi) ==
    LET relinked(a) ==
            IF a.d[r].n # Nil
            THEN [a EXCEPT !.d[a.d[r].n].p = q, !.d[q].n = a.d[r].n]
            ELSE [a EXCEPT !.t.last = q, !.d[q].n = a.d[r].n]
        dropped(a) ==
            IF a.x[p].c > 1
            THEN xExtract(a, p, pi)
            ELSE [a EXCEPT !.t.r = DRef(q)]
    IN  dropped(relinked(mvL([m EXCEPT !.t.ver = @ + 1], q, r, m.d[r].c)))

\* cat with a fault: a root with one separator stays the root when its two
\* leaves are merged.
catKeepRoot(m, p, q, r, pi) ==
    LET relinked(a) ==
            IF a.d[r].n # Nil
            THEN [a EXCEPT !.d[a.d[r].n].p = q, !.d[q].n = a.d[r].n]
            ELSE [a EXCEPT !.t.last = q, !.d[q].n = a.d[r].n]
        dropped(a) ==
            IF a.x[p].c > 1
            THEN [xExtract(a, p, pi) EXCEPT !.x[p].x[pi].ch = DRef(q)]
            ELSE a
    IN  dropped(relinked(mvL([m EXCEPT !.t.ver = @ + 1], q, r, m.d[r].c)))

cat(m, p, q, r, pi) ==
    LET relinked(a) ==
            IF a.d[r].n # Nil
            THEN [a EXCEPT !.d[a.d[r].n].p = q, !.d[q].n = a.d[r].n]
            ELSE [a EXCEPT !.t.last = q, !.d[q].n = a.d[r].n]
        dropped(a) ==
            IF a.x[p].c > 1
            THEN [xExtract(a, p, pi) EXCEPT !.x[p].x[pi].ch = DRef(q)]
            ELSE [a EXCEPT !.t.r = DRef(q)]
    IN  dropped(relinked(mvL([m EXCEPT !.t.ver = @ + 1], q, r, m.d[r].c)))

\* catX with a fault: a root with one separator stays the root when its two
\* index pages are merged.
catXKeepRoot(m, p, q, r, pi) ==
    LET qc == m.x[q].c
        rc == m.x[r].c
        pc == m.x[p].c - 1
        joined(a) ==
            [copy([a EXCEPT ![qc].sep = m.x[p].x[pi].sep],
                  qc + 1, XLen, m.x[r].x, 0, rc)
                EXCEPT ![qc + rc + 1].ch = m.x[r].x[rc].ch]
        carried(a) == [a EXCEPT ![pi].sep = a[pi + 1].sep]
        shifted(a) == copy(a, pi + 1, XLen, a, pi + 2, pc + 1)
        closed(a) == [a EXCEPT ![pc] = [ch |-> a[pc + 1].ch, sep |-> Nil],
                               ![pc + 1].ch = NilRef]
        merged(a) == [a EXCEPT !.t.ver = @ + 1,
                               !.x[q] = [c |-> qc + rc + 1, x |-> joined(@.x)]]
        dropped(a) ==
            IF m.x[p].c > 1
            THEN IF pi < pc
                 THEN [a EXCEPT !.x[p] =
                          [c |-> pc, x |-> closed(shifted(carried(@.x)))]]
                 ELSE [a EXCEPT !.x[p].c = pc]
            ELSE a
    IN  dropped(merged(m))

catX(m, p, q, r, pi) ==
    LET qc == m.x[q].c
        rc == m.x[r].c
        pc == m.x[p].c - 1
        joined(a) ==
            [copy([a EXCEPT ![qc].sep = m.x[p].x[pi].sep],
                  qc + 1, XLen, m.x[r].x, 0, rc)
                EXCEPT ![qc + rc + 1].ch = m.x[r].x[rc].ch]
        carried(a) == [a EXCEPT ![pi].sep = a[pi + 1].sep]
        shifted(a) == copy(a, pi + 1, XLen, a, pi + 2, pc + 1)
        closed(a) == [a EXCEPT ![pc] = [ch |-> a[pc + 1].ch, sep |-> Nil],
                               ![pc + 1].ch = NilRef]
        merged(a) == [a EXCEPT !.t.ver = @ + 1,
                               !.x[q] = [c |-> qc + rc + 1, x |-> joined(@.x)]]
        dropped(a) ==
            IF m.x[p].c > 1
            THEN IF pi < pc
                 THEN [a EXCEPT !.x[p] =
                          [c |-> pc, x |-> closed(shifted(carried(@.x)))]]
                 ELSE [a EXCEPT !.x[p].c = pc]
            ELSE [a EXCEPT !.t.r = XRef(q)]
    IN  dropped(merged(m))

\* extract with a fault: t.c is not decremented.
extractKeepCount(m, q, i) ==
    LET c == m.d[q].c - 1
        closed(a) == IF i < c THEN copy(a, i, DLen, a, i + 1, c + 1) ELSE a
        wiped(a) == [a EXCEPT ![c] = zde]
    IN  [m EXCEPT !.t.ver = @ + 1, !.d[q].c = c, !.d[q].d = wiped(closed(@))]

extract(m, q, i) ==
    LET c == m.d[q].c - 1
        closed(a) == IF i < c THEN copy(a, i, DLen, a, i + 1, c + 1) ELSE a
        wiped(a) == [a EXCEPT ![c] = zde]
    IN  [m EXCEPT !.t.ver = @ + 1, !.d[q].c = c, !.d[q].d = wiped(closed(@)),
                  !.t.c = @ - 1]

\* underflow with a fault: a sibling lends an entry when the two leaves hold
\* kd entries together, not 2*kd.
underflowGreedy(m, p, q, pi) ==
    LET wiped(a, r) == [a EXCEPT !.d[r].d[a.d[r].c] = zde]
        moved(a, l, r) ==
            IF l # Nil /\ a.d[l].c + a.d[q].c >= kd
            THEN mvR(a, l, q, 1)
            ELSE IF r # Nil /\ a.d[q].c + a.d[r].c >= kd
            THEN wiped(mvL(a, q, r, 1), r)
            ELSE IF l # Nil
            THEN cat(a, p, l, q, pi - 1)
            ELSE cat(a, p, q, r, pi)
        sided(a, s) == moved(a, s.l, s.r)
    IN  sided([m EXCEPT !.t.ver = @ + 1], siblings(m, p, pi))

\* underflow with a fault: the right sibling is asked for an entry before the
\* left one.
underflowRightFirst(m, p, q, pi) ==
    LET wiped(a, r) == [a EXCEPT !.d[r].d[a.d[r].c] = zde]
        moved(a, l, r) ==
            IF r # Nil /\ a.d[q].c + a.d[r].c >= 2 * kd
            THEN wiped(mvL(a, q, r, 1), r)
            ELSE IF l # Nil /\ a.d[l].c + a.d[q].c >= 2 * kd
            THEN mvR(a, l, q, 1)
            ELSE IF l # Nil
            THEN cat(a, p, l, q, pi - 1)
            ELSE cat(a, p, q, r, pi)
        sided(a, s) == moved(a, s.l, s.r)
    IN  sided([m EXCEPT !.t.ver = @ + 1], siblings(m, p, pi))

underflow(m, p, q, pi) ==
    LET wiped(a, r) == [a EXCEPT !.d[r].d[a.d[r].c] = zde]
        moved(a, l, r) ==
            IF l # Nil /\ a.d[l].c + a.d[q].c >= 2 * kd
            THEN mvR(a, l, q, 1)
            ELSE IF r # Nil /\ a.d[q].c + a.d[r].c >= 2 * kd
            THEN wiped(mvL(a, q, r, 1), r)
            ELSE IF l # Nil
            THEN cat(a, p, l, q, pi - 1)
            ELSE cat(a, p, q, r, pi)
        sided(a, s) == moved(a, s.l, s.r)
    IN  sided([m EXCEPT !.t.ver = @ + 1], siblings(m, p, pi))

\* underflowX with a fault: when a child comes over from the right sibling,
\* the separator of the parent between the two pages is left as it was.
underflowXKeepSep(m, p, pp, pi, i) ==
    LET q == pp
        l == IF pi >= 0 /\ pi > 0 THEN m.x[p].x[pi - 1].ch.id ELSE Nil
        r == IF pi >= 0 /\ pi < m.x[p].c THEN m.x[p].x[pi + 1].ch.id ELSE Nil
        qc == m.x[q].c
        lc == m.x[l].c
        rc == m.x[r].c - 1
        moved(a) == [a EXCEPT ![qc + 1].ch = a[qc].ch]
        opened(a) == copy(a, 1, XLen, a, 0, qc)
        headed(a) == [a EXCEPT ![0] = [ch |-> m.x[l].x[lc].ch,
                                       sep |-> m.x[p].x[pi - 1].sep]]
        fromL(a) ==
            [a EXCEPT !.x[q] = [c |-> qc + 1, x |-> headed(opened(moved(@.x)))],
                      !.x[l].c = lc - 1,
                      !.x[p].x[pi - 1].sep = m.x[l].x[lc - 1].sep]
        shifted(a) == copy(a, 0, XLen, a, 1, rc + 1)
        closed(a) == [a EXCEPT ![rc] = [ch |-> a[rc + 1].ch, sep |-> Nil],
                               ![rc + 1].ch = NilRef]
        fromR(a) ==
            [a EXCEPT !.x[q].x[qc].sep = m.x[p].x[pi].sep,
                      !.x[q].c = qc + 1,
                      !.x[q].x[qc + 1].ch = m.x[r].x[0].ch,
                      !.x[r] = [c |-> rc, x |-> closed(shifted(@.x))]]
        fixed(a) ==
            IF l # Nil /\ a.x[l].c > kx
            THEN [m |-> fromL(a), pp |-> q, i |-> i + 1]
            ELSE IF r # Nil /\ a.x[r].c > kx
            THEN [m |-> fromR(a), pp |-> q, i |-> i]
            ELSE IF l # Nil
            THEN [m |-> catX(a, p, l, q, pi - 1), pp |-> l, i |-> i + lc + 1]
            ELSE [m |-> catX(a, p, q, r, pi), pp |-> q, i |-> i]
    IN  fixed([m EXCEPT !.t.ver = @ + 1])

\* underflowX with a fault: the page that takes a child and the page that
\* gives one do not shift their entries.
underflowXNoShift(m, p, pp, pi, i) ==
    LET q == pp
        l == IF pi >= 0 /\ pi > 0 THEN m.x[p].x[pi - 1].ch.id ELSE Nil
        r == IF pi >= 0 /\ pi < m.x[p].c THEN m.x[p].x[pi + 1].ch.id ELSE Nil
        qc == m.x[q].c
        lc == m.x[l].c
        rc == m.x[r].c - 1
        moved(a) == [a EXCEPT ![qc + 1].ch = a[qc].ch]
        headed(a) == [a EXCEPT ![0] = [ch |-> m.x[l].x[lc].ch,
                                       sep |-> m.x[p].x[pi - 1].sep]]
        fromL(a) ==
            [a EXCEPT !.x[q] = [c |-> qc + 1, x |-> headed(moved(@.x))],
                      !.x[l].c = lc - 1,
                      !.x[p].x[pi - 1].sep = m.x[l].x[lc - 1].sep]
        closed(a) == [a EXCEPT ![rc] = [ch |-> a[rc + 1].ch, sep |-> Nil],
                               ![rc + 1].ch = NilRef]
        fromR(a) ==
            [a EXCEPT !.x[q].x[qc].sep = m.x[p].x[pi].sep,
                      !.x[q].c = qc + 1,
                      !.x[q].x[qc + 1].ch = m.x[r].x[0].ch,
                      !.x[p].x[pi].sep = m.x[r].x[0].sep,
                      !.x[r] = [c |-> rc, x |-> closed(@.x)]]
        fixed(a) ==
            IF l # Nil /\ a.x[l].c > kx
            THEN [m |-> fromL(a), pp |-> q, i |-> i + 1]
            ELSE IF r # Nil /\ a.x[r].c > kx
            THEN [m |-> fromR(a), pp |-> q, i |-> i]
            ELSE IF l # Nil
            THEN [m |-> catX(a, p, l, q, pi - 1), pp |-> l, i |-> i + lc + 1]
            ELSE [m |-> catX(a, p, q, r, pi), pp |-> q, i |-> i]
    IN  fixed([m EXCEPT !.t.ver = @ + 1])

\* The siblings are cast to *x without a check.
underflowX(m, p, pp, pi, i) ==
    LET q == pp
        l == IF pi >= 0 /\ pi > 0 THEN m.x[p].x[pi - 1].ch.id ELSE Nil
        r == IF pi >= 0 /\ pi < m.x[p].c THEN m.x[p].x[pi + 1].ch.id ELSE Nil
        qc == m.x[q].c
        lc == m.x[l].c
        rc == m.x[r].c - 1
        moved(a) == [a EXCEPT ![qc + 1].ch = a[qc].ch]
        opened(a) == copy(a, 1, XLen, a, 0, qc)
        headed(a) == [a EXCEPT ![0] = [ch |-> m.x[l].x[lc].ch,
                                       sep |-> m.x[p].x[pi - 1].sep]]
        fromL(a) ==
            [a EXCEPT !.x[q] = [c |-> qc + 1, x |-> headed(opened(moved(@.x)))],
                      !.x[l].c = lc - 1,
                      !.x[p].x[pi - 1].sep = m.x[l].x[lc - 1].sep]
        shifted(a) == copy(a, 0, XLen, a, 1, rc + 1)
        closed(a) == [a EXCEPT ![rc] = [ch |-> a[rc + 1].ch, sep |-> Nil],
                               ![rc + 1].ch = NilRef]
        fromR(a) ==
            [a EXCEPT !.x[q].x[qc].sep = m.x[p].x[pi].sep,
                      !.x[q].c = qc + 1,
                      !.x[q].x[qc + 1].ch = m.x[r].x[0].ch,
                      !.x[p].x[pi].sep = m.x[r].x[0].sep,
                      !.x[r] = [c |-> rc, x |-> closed(shifted(@.x))]]
        fixed(a) ==
            IF l # Nil /\ a.x[l].c > kx
            THEN [m |-> fromL(a), pp |-> q, i |-> i + 1]
            ELSE IF r # Nil /\ a.x[r].c > kx
            THEN [m |-> fromR(a), pp |-> q, i |-> i]
            ELSE IF l # Nil
            THEN [m |-> catX(a, p, l, q, pi - 1), pp |-> l, i |-> i + lc + 1]
            ELSE [m |-> catX(a, p, q, r, pi), pp |-> q, i |-> i]
    IN  fixed([m EXCEPT !.t.ver = @ + 1])

\* Delete's loop; its result is [m, ok].
RECURSIVE DeleteLoop(_, _, _, _, _)

\* Delete's loop with a fault: a root leaf that has lost its last entry is
\* kept, Clear is not called.
DeleteLoopKeepRoot(m, p, q, pi, k) ==
    LET refilled(i) ==
            IF m.x[q.id].c < kx /\ q # m.t.r
            THEN underflowX(m, p, q.id, pi, i)
            ELSE [m |-> m, pp |-> q.id, i |-> i]
        right(s) ==
            DeleteLoop(s.m, s.pp, s.m.x[s.pp].x[s.i + 1].ch, s.i + 1, k)
        down(s) == DeleteLoop(s.m, s.pp, s.m.x[s.pp].x[s.i].ch, s.i, k)
        taken(a) ==
            IF a.d[q.id].c >= kd
            THEN [m |-> a, ok |-> TRUE]
            ELSE IF q # a.t.r
            THEN [m |-> underflow(a, p, q.id, pi), ok |-> TRUE]
            ELSE [m |-> a, ok |-> TRUE]
        at(f) ==
            IF f.ok
            THEN IF q.kind = "x"
                 THEN IF m.d[m.x[q.id].x[f.i].sep].c > kd
                      THEN [m |-> extract(m, m.x[q.id].x[f.i].sep, 0),
                            ok |-> TRUE]
                      ELSE right(refilled(f.i))
                 ELSE taken(extract(m, q.id, f.i))
            ELSE IF q.kind = "x"
                 THEN down(refilled(f.i))
                 ELSE [m |-> m, ok |-> FALSE]
    IN  at(find(m, q, k))

DeleteLoop(m, p, q, pi, k) ==
    LET refilled(i) ==
            IF m.x[q.id].c < kx /\ q # m.t.r
            THEN underflowX(m, p, q.id, pi, i)
            ELSE [m |-> m, pp |-> q.id, i |-> i]
        right(s) ==
            DeleteLoop(s.m, s.pp, s.m.x[s.pp].x[s.i + 1].ch, s.i + 1, k)
        down(s) == DeleteLoop(s.m, s.pp, s.m.x[s.pp].x[s.i].ch, s.i, k)
        taken(a) ==
            IF a.d[q.id].c >= kd
            THEN [m |-> a, ok |-> TRUE]
            ELSE IF q # a.t.r
            THEN [m |-> underflow(a, p, q.id, pi), ok |-> TRUE]
            ELSE IF a.t.c = 0
            THEN [m |-> Clear(a), ok |-> TRUE]
            ELSE [m |-> a, ok |-> TRUE]
        at(f) ==
            IF f.ok
            THEN IF q.kind = "x"
                 THEN IF m.d[m.x[q.id].x[f.i].sep].c > kd
                      THEN [m |-> extract(m, m.x[q.id].x[f.i].sep, 0),
                            ok |-> TRUE]
                      ELSE right(refilled(f.i))
                 ELSE taken(extract(m, q.id, f.i))
            ELSE IF q.kind = "x"
                 THEN down(refilled(f.i))
                 ELSE [m |-> m, ok |-> FALSE]
    IN  at(find(m, q, k))

Delete(m, k) ==
    IF m.t.r = NilRef
    THEN [m |-> m, ok |-> FALSE]
    ELSE DeleteLoop(m, Nil, m.t.r, -1, k)

First(m) ==
    IF m.t.first # Nil
    THEN [k |-> m.d[m.t.first].d[0].k, v |-> m.d[m.t.first].d[0].v]
    ELSE zde

Last(m) ==
    IF m.t.last # Nil
    THEN [k |-> m.d[m.t.last].d[m.d[m.t.last].c - 1].k,
          v |-> m.d[m.t.last].d[m.d[m.t.last].c - 1].v]
    ELSE zde

\* An updater handed to Put: what it returns for (oldV, exists), and args,
\* the arguments it was called with.
Updaters ==
    [kind : {"always", "never", "ifabsent", "ifpresent"}, v : Vals]

upd(u, oldV, exists) ==
    [newV |-> u.v,
     write |-> CASE u.kind = "always" -> TRUE
                 [] u.kind = "never" -> FALSE
                 [] u.kind = "ifabsent" -> ~exists
                 [] u.kind = "ifpresent" -> exists,
     args |-> <<oldV, exists>>]

\* Put's loop; its result is [m, oldV, written, calls], calls being the
\* arguments of every call of the updater, in order.
RECURSIVE PutLoop(_, _, _, _, _, _)

\* Put's loop with a fault: when k matches a separator of an index page, the
\* new value is not stored.
PutLoopSepUnwritten(m, p, q, pi, k, u) ==
    LET down(s) == PutLoop(s.m, s.pp, s.m.x[s.pp].x[s.i].ch, s.i, k, u)
        result(a, oldV, exists, w) ==
            [m |-> a, oldV |-> oldV, written |-> w.write,
             calls |-> <<w.args>>]
        atSep(dp, i, w) ==
            result(IF w.write /\ q.kind # "x"
                   THEN [m EXCEPT !.d[dp].d[i].v = w.newV] ELSE m,
                   m.d[dp].d[i].v, TRUE, w)
        fresh(i, w) ==
            result(IF ~w.write THEN m
                   ELSE IF m.d[q.id].c < 2 * kd
                   THEN insert(m, q.id, i, k, w.newV)
                   ELSE overflow(m, p, q.id, pi, i, k, w.newV),
                   0, FALSE, w)
        at(f) ==
            IF f.ok
            THEN IF q.kind = "x"
                 THEN atSep(m.x[q.id].x[f.i].sep, 0,
                            upd(u, m.d[m.x[q.id].x[f.i].sep].d[0].v, TRUE))
                 ELSE atSep(q.id, f.i, upd(u, m.d[q.id].d[f.i].v, TRUE))
            ELSE IF q.kind = "x"
                 THEN down(IF m.x[q.id].c > 2 * kx
                           THEN splitX(m, p, q.id, pi, f.i)
                           ELSE [m |-> m, pp |-> q.id, i |-> f.i])
                 ELSE fresh(f.i, upd(u, 0, FALSE))
    IN  at(find(m, q, k))

\* Put's loop with a fault: a key that is absent is inserted whatever write
\* the updater returns.
PutLoopInsertAnyway(m, p, q, pi, k, u) ==
    LET down(s) == PutLoop(s.m, s.pp, s.m.x[s.pp].x[s.i].ch, s.i, k, u)
        result(a, oldV, exists, w) ==
            [m |-> a, oldV |-> oldV, written |-> w.write,
             calls |-> <<w.args>>]
        atSep(dp, i, w) ==
            result(IF w.write THEN [m EXCEPT !.d[dp].d[i].v = w.newV] ELSE m,
                   m.d[dp].d[i].v, TRUE, w)
        fresh(i, w) ==
            result(IF m.d[q.id].c < 2 * kd
                   THEN insert(m, q.id, i, k, w.newV)
                   ELSE overflow(m, p, q.id, pi, i, k, w.newV),
                   0, FALSE, w)
        at(f) ==
            IF f.ok
            THEN IF q.kind = "x"
                 THEN atSep(m.x[q.id].x[f.i].sep, 0,
                            upd(u, m.d[m.x[q.id].x[f.i].sep].d[0].v, TRUE))
                 ELSE atSep(q.id, f.i, upd(u, m.d[q.id].d[f.i].v, TRUE))
            ELSE IF q.kind = "x"
                 THEN down(IF m.x[q.id].c > 2 * kx
                           THEN splitX(m, p, q.id, pi, f.i)
                           ELSE [m |-> m, pp |-> q.id, i |-> f.i])
                 ELSE fresh(f.i, upd(u, 0, FALSE))
    IN  at(find(m, q, k))

\* Put's loop with a fault: when k matches a separator of an index page, the
\* updater is called as for a key that is not in the tree.
PutLoopSepAsNew(m, p, q, pi, k, u) ==
    LET down(s) == PutLoop(s.m, s.pp, s.m.x[s.pp].x[s.i].ch, s.i, k, u)
        result(a, oldV, exists, w) ==
            [m |-> a, oldV |-> oldV, written |-> w.write,
             calls |-> <<w.args>>]
        atSep(dp, i, w) ==
            result(IF w.write THEN [m EXCEPT !.d[dp].d[i].v = w.newV] ELSE m,
                   m.d[dp].d[i].v, TRUE, w)
        fresh(i, w) ==
            result(IF ~w.write THEN m
                   ELSE IF m.d[q.id].c < 2 * kd
                   THEN insert(m, q.id, i, k, w.newV)
                   ELSE overflow(m, p, q.id, pi, i, k, w.newV),
                   0, FALSE, w)
        at(f) ==
            IF f.ok
            THEN IF q.kind = "x"
                 THEN atSep(m.x[q.id].x[f.i].sep, 0,
                            upd(u, 0, FALSE))
                 ELSE atSep(q.id, f.i, upd(u, m.d[q.id].d[f.i].v, TRUE))
            ELSE IF q.kind = "x"
                 THEN down(IF m.x[q.id].c > 2 * kx
                           THEN splitX(m, p, q.id, pi, f.i)
                           ELSE [m |-> m, pp |-> q.id, i |-> f.i])
                 ELSE fresh(f.i, upd(u, 0, FALSE))
    IN  at(find(m, q, k))

PutLoop(m, p, q, pi, k, u) ==
    LET down(s) == PutLoop(s.m, s.pp, s.m.x[s.pp].x[s.i].ch, s.i, k, u)
        result(a, oldV, exists, w) ==
            [m |-> a, oldV |-> oldV, written |-> w.write,
             calls |-> <<w.args>>]
        atSep(dp, i, w) ==
            result(IF w.write THEN [m EXCEPT !.d[dp].d[i].v = w.newV] ELSE m,
                   m.d[dp].d[i].v, TRUE, w)
        fresh(i, w) ==
            result(IF ~w.write THEN m
                   ELSE IF m.d[q.id].c < 2 * kd
                   THEN insert(m, q.id, i, k, w.newV)
                   ELSE overflow(m, p, q.id, pi, i, k, w.newV),
                   0, FALSE, w)
        at(f) ==
            IF f.ok
            THEN IF q.kind = "x"
                 THEN atSep(m.x[q.id].x[f.i].sep, 0,
                            upd(u, m.d[m.x[q.id].x[f.i].sep].d[0].v, TRUE))
                 ELSE atSep(q.id, f.i, upd(u, m.d[q.id].d[f.i].v, TRUE))
            ELSE IF q.kind = "x"
                 THEN down(IF m.x[q.id].c > 2 * kx
                           THEN splitX(m, p, q.id, pi, f.i)
                           ELSE [m |-> m, pp |-> q.id, i |-> f.i])
                 ELSE fresh(f.i, upd(u, 0, FALSE))
    IN  at(find(m, q, k))

Put(m, k, u) ==
    LET rooted(a, z) ==
            [a EXCEPT !.t.r = DRef(z), !.t.first = z, !.t.last = z]
        made(n, w) == rooted(insert(n.m, n.q, 0, k, w.newV), n.q)
        fresh(w) ==
            [m |-> IF ~w.write THEN m ELSE made(newD(m), w),
             oldV |-> 0, written |-> w.write, calls |-> <<w.args>>]
    IN  IF m.t.r # NilRef
        THEN PutLoop(m, Nil, m.t.r, -1, k, u)
        ELSE fresh(upd(u, 0, FALSE))

\* ------------------------------------------------------------ Enumerator

NoErr == "nil"
EOF == "EOF"

\* &Enumerator{err, hit, i, k, q, t, ver}; t is the one tree.
Enumerator(err, hit, i, k, q, ver) ==
    [err |-> err, hit |-> hit, i |-> i, k |-> k, q |-> q, ver |-> ver]

RECURSIVE SeekLoop(_, _, _)

\* Seek's loop with a fault: when k matches a separator, the enumerator is
\* given the index of the separator, not 0.
SeekLoopSepIndex(m, q, k) ==
    LET at(f) ==
            IF f.ok
            THEN IF q.kind = "x"
                 THEN [e |-> Enumerator(NoErr, TRUE, f.i, k,
                                        m.x[q.id].x[f.i].sep, m.t.ver),
                       ok |-> TRUE]
                 ELSE [e |-> Enumerator(NoErr, TRUE, f.i, k, q.id, m.t.ver),
                       ok |-> TRUE]
            ELSE IF q.kind = "x"
                 THEN SeekLoop(m, m.x[q.id].x[f.i].ch, k)
                 ELSE [e |-> Enumerator(NoErr, FALSE, f.i, k, q.id, m.t.ver),
                       ok |-> FALSE]
    IN  at(find(m, q, k))

SeekLoop(m, q, k) ==
    LET at(f) ==
            IF f.ok
            THEN IF q.kind = "x"
                 THEN [e |-> Enumerator(NoErr, TRUE, 0, k,
                                        m.x[q.id].x[f.i].sep, m.t.ver),
                       ok |-> TRUE]
                 ELSE [e |-> Enumerator(NoErr, TRUE, f.i, k, q.id, m.t.ver),
                       ok |-> TRUE]
            ELSE IF q.kind = "x"
                 THEN SeekLoop(m, m.x[q.id].x[f.i].ch, k)
                 ELSE [e |-> Enumerator(NoErr, FALSE, f.i, k, q.id, m.t.ver),
                       ok |-> FALSE]
    IN  at(find(m, q, k))

Seek(m, k) ==
    IF m.t.r = NilRef
    THEN [e |-> Enumerator(NoErr, FALSE, 0, k, Nil, m.t.ver), ok |-> FALSE]
    ELSE SeekLoop(m, m.t.r, k)

\* The result is [e, err]; e is meaningful when err is nil.
SeekFirst(m) ==
    IF m.t.first = Nil
    THEN [e |-> Enumerator(EOF, FALSE, 0, 0, Nil, 0), err |-> EOF]
    ELSE [e |-> Enumerator(NoErr, TRUE, 0, m.d[m.t.first].d[0].k, m.t.first,
                           m.t.ver),
          err |-> NoErr]

\* SeekLast with a fault: the enumerator is placed at the leaf's count, one
\* past its last entry.
SeekLastPastEnd(m) ==
    IF m.t.last = Nil
    THEN [e |-> Enumerator(EOF, FALSE, 0, 0, Nil, 0), err |-> EOF]
    ELSE [e |-> Enumerator(NoErr, TRUE, m.d[m.t.last].c,
                           m.d[m.t.last].d[m.d[m.t.last].c - 1].k, m.t.last,
                           m.t.ver),
          err |-> NoErr]

SeekLast(m) ==
    IF m.t.last = Nil
    THEN [e |-> Enumerator(EOF, FALSE, 0, 0, Nil, 0), err |-> EOF]
    ELSE [e |-> Enumerator(NoErr, TRUE, m.d[m.t.last].c - 1,
                           m.d[m.t.last].d[m.d[m.t.last].c - 1].k, m.t.last,
                           m.t.ver),
          err |-> NoErr]

\* e.next() with a fault: e.i is kept when e moves to the next leaf.
nextKeepIndex(m, e) ==
    IF e.q = Nil
    THEN [e EXCEPT !.err = EOF]
    ELSE IF e.i < m.d[e.q].c - 1
    THEN [e EXCEPT !.i = @ + 1]
    ELSE IF m.d[e.q].n = Nil
    THEN [e EXCEPT !.q = Nil, !.i = 0, !.err = EOF]
    ELSE [e EXCEPT !.q = m.d[e.q].n]

\* e.next(): the result is e afterwards; the error returned is its err.
next(m, e) ==
    IF e.q = Nil
    THEN [e EXCEPT !.err = EOF]
    ELSE IF e.i < m.d[e.q].c - 1
    THEN [e EXCEPT !.i = @ + 1]
    ELSE IF m.d[e.q].n = Nil
    THEN [e EXCEPT !.q = Nil, !.i = 0, !.err = EOF]
    ELSE [e EXCEPT !.q = m.d[e.q].n, !.i = 0]

\* e.prev() with a fault: e moves to the first entry of the previous leaf.
prevToFirst(m, e) ==
    IF e.q = Nil
    THEN [e EXCEPT !.err = EOF]
    ELSE IF e.i > 0
    THEN [e EXCEPT !.i = @ - 1]
    ELSE IF m.d[e.q].p = Nil
    THEN [e EXCEPT !.q = Nil, !.err = EOF]
    ELSE [e EXCEPT !.q = m.d[e.q].p, !.i = 0]

prev(m, e) ==
    IF e.q = Nil
    THEN [e EXCEPT !.err = EOF]
    ELSE IF e.i > 0
    THEN [e EXCEPT !.i = @ - 1]
    ELSE IF m.d[e.q].p = Nil
    THEN [e EXCEPT !.q = Nil, !.err = EOF]
    ELSE [e EXCEPT !.q = m.d[e.q].p, !.i = m.d[m.d[e.q].p].c - 1]

\* What Next and Prev return: the enumerator afterwards and (k, v, err).
Returned(e, k, v, err) == [e |-> e, k |-> k, v |-> v, err |-> err]

\* Next with a fault: after a re-seek that hits e.k, the enumerator is not
\* advanced past e.k.
NextNoAdvance(m, e) ==
    LET taken(e2, it) ==
            Returned(next(m, [e2 EXCEPT !.k = it.k, !.hit = FALSE]),
                     it.k, it.v, NoErr)
        within(e2) ==
            IF e2.err # NoErr THEN Returned(e2, 0, 0, e2.err)
            ELSE taken(e2, m.d[e2.q].d[e2.i])
        placed(e1) ==
            IF e1.q = Nil
            THEN Returned([e1 EXCEPT !.err = EOF], 0, 0, EOF)
            ELSE within(IF e1.i >= m.d[e1.q].c THEN next(m, e1) ELSE e1)
        resought(f) == placed(f.e)
    IN  IF e.err # NoErr THEN Returned(e, 0, 0, e.err)
        ELSE IF e.ver # m.t.ver THEN resought(Seek(m, e.k))
        ELSE placed(e)

\* Next and Prev: the result is [e, k, v, err], e being the enumerator
\* afterwards and f the enumerator of the re-seek.
\* Next with a fault: a change of the tree's version is not looked at, the
\* enumerator reads on from where it stands.
NextNoResync(m, e) ==
    LET taken(e2, it) ==
            Returned(next(m, [e2 EXCEPT !.k = it.k, !.hit = FALSE]),
                     it.k, it.v, NoErr)
        within(e2) ==
            IF e2.err # NoErr THEN Returned(e2, 0, 0, e2.err)
            ELSE taken(e2, m.d[e2.q].d[e2.i])
        placed(e1) ==
            IF e1.q = Nil
            THEN Returned([e1 EXCEPT !.err = EOF], 0, 0, EOF)
            ELSE within(IF e1.i >= m.d[e1.q].c THEN next(m, e1) ELSE e1)
    IN  IF e.err # NoErr THEN Returned(e, 0, 0, e.err)
        ELSE placed(e)

Next(m, e) ==
    LET taken(e2, it) ==
            Returned(next(m, [e2 EXCEPT !.k = it.k, !.hit = FALSE]),
                     it.k, it.v, NoErr)
        within(e2) ==
            IF e2.err # NoErr THEN Returned(e2, 0, 0, e2.err)
            ELSE taken(e2, m.d[e2.q].d[e2.i])
        placed(e1) ==
            IF e1.q = Nil
            THEN Returned([e1 EXCEPT !.err = EOF], 0, 0, EOF)
            ELSE within(IF e1.i >= m.d[e1.q].c THEN next(m, e1) ELSE e1)
        advanced(fn) ==
            IF fn.err # NoErr THEN Returned(e, 0, 0, fn.err) ELSE placed(fn)
        resought(f) ==
            IF ~e.hit /\ f.ok THEN advanced(next(m, f.e)) ELSE placed(f.e)
    IN  IF e.err # NoErr THEN Returned(e, 0, 0, e.err)
        ELSE IF e.ver # m.t.ver THEN resought(Seek(m, e.k))
        ELSE placed(e)

\* Prev with a fault: after a re-seek that hits e.k, the enumerator is not
\* moved back before e.k.
PrevNoRetreat(m, e) ==
    LET taken(e2, it) ==
            Returned(prev(m, [e2 EXCEPT !.k = it.k, !.hit = FALSE]),
                     it.k, it.v, NoErr)
        within(e2) ==
            IF e2.err # NoErr THEN Returned(e2, 0, 0, e2.err)
            ELSE taken(e2, m.d[e2.q].d[e2.i])
        placed(e1) ==
            IF e1.q = Nil
            THEN Returned([e1 EXCEPT !.err = EOF], 0, 0, EOF)
            ELSE within(IF e1.i >= m.d[e1.q].c THEN next(m, e1) ELSE e1)
        resought(f) == placed(f.e)
    IN  IF e.err # NoErr THEN Returned(e, 0, 0, e.err)
        ELSE IF e.ver # m.t.ver THEN resought(Seek(m, e.k))
        ELSE placed(e)

\* Prev with a fault: an enumerator that stands past the last entry of its
\* leaf steps back into the leaf, not on to the next leaf.
PrevPastEndBack(m, e) ==
    LET taken(e2, it) ==
            Returned(prev(m, [e2 EXCEPT !.k = it.k, !.hit = FALSE]),
                     it.k, it.v, NoErr)
        within(e2) ==
            IF e2.err # NoErr THEN Returned(e2, 0, 0, e2.err)
            ELSE taken(e2, m.d[e2.q].d[e2.i])
        placed(e1) ==
            IF e1.q = Nil
            THEN Returned([e1 EXCEPT !.err = EOF], 0, 0, EOF)
            ELSE within(IF e1.i >= m.d[e1.q].c THEN prev(m, e1) ELSE e1)
        retreated(fp) ==
            IF fp.err # NoErr THEN Returned(e, 0, 0, fp.err) ELSE placed(fp)
        resought(f) ==
            IF ~e.hit /\ f.ok THEN retreated(prev(m, f.e)) ELSE placed(f.e)
    IN  IF e.err # NoErr THEN Returned(e, 0, 0, e.err)
        ELSE IF e.ver # m.t.ver THEN resought(Seek(m, e.k))
        ELSE placed(e)

Prev(m, e) ==
    LET taken(e2, it) ==
            Returned(prev(m, [e2 EXCEPT !.k = it.k, !.hit = FALSE]),
                     it.k, it.v, NoErr)
        within(e2) ==
            IF e2.err # NoErr THEN Returned(e2, 0, 0, e2.err)
            ELSE taken(e2, m.d[e2.q].d[e2.i])
        placed(e1) ==
            IF e1.q = Nil
            THEN Returned([e1 EXCEPT !.err = EOF], 0, 0, EOF)
            ELSE within(IF e1.i >= m.d[e1.q].c THEN next(m, e1) ELSE e1)
        retreated(fp) ==
            IF fp.err # NoErr THEN Returned(e, 0, 0, fp.err) ELSE placed(fp)
        resought(f) ==
            IF ~e.hit /\ f.ok THEN retreated(prev(m, f.e)) ELSE placed(f.e)
    IN  IF e.err # NoErr THEN Returned(e, 0, 0, e.err)
        ELSE IF e.ver # m.t.ver THEN resought(Seek(m, e.k))
        ELSE placed(e)

\* ------------------------------------------------------ addresses of pages

\* No enumerator has been created yet.
NoEnum == Enumerator("none", FALSE, 0, 0, Nil, 0)

\* The pages the program can still reach, in the order a walk from the
\* tree's root, first and last leaf and the enumerator's leaf finds them.
RECURSIVE Walk(_, _, _)
Walk(m, stack, acc) ==
    IF stack = <<>> THEN acc
    ELSE LET r == Head(stack)
             rest == Tail(stack)
         IN  IF r.kind = "d"
             THEN IF \E j \in 1 .. Len(acc.d) : acc.d[j] = r.id
                  THEN Walk(m, rest, acc)
                  ELSE Walk(m, <<DRef(m.d[r.id].n), DRef(m.d[r.id].p)>> \o rest,
                            [acc EXCEPT !.d = Append(@, r.id)])
             ELSE IF r.kind = "x"
             THEN IF \E j \in 1 .. Len(acc.x) : acc.x[j] = r.id
                  THEN Walk(m, rest, acc)
                  ELSE LET pg == m.x[r.id]
                           chs == [j \in 1 .. pg.c + 1 |-> pg.x[j - 1].ch]
                           seps == [j \in 1 .. pg.c |-> DRef(pg.x[j - 1].sep)]
                       IN  Walk(m, chs \o seps \o rest,
                                [acc EXCEPT !.x = Append(@, r.id)])
             ELSE Walk(m, rest, acc)

\* Addresses are not observable, only their equality is, and a slot of a
\* page's array at or after its count is never read.  Canon renumbers the
\* reachable pages in Walk's order, drops the garbage ones and zeroes the
\* slots at or after the count, so that two heaps of the same shape are the
\* same state.  The version counters are only incremented and compared for
\* equality with each other: both are kept relative to the version the
\* enumerator holds, and with no enumerator to read it the tree's is kept at
\* 0.  What a call adds to the counter is the difference between the ver of
\* the operator's result and the ver of its argument.
Canon(m, e) ==
    LET base == IF e.err = "none" THEN m.t.ver ELSE e.ver
        renamed(acc) ==
            LET dnew(q) == IF q = Nil THEN Nil
                           ELSE CHOOSE j \in 1 .. Len(acc.d) : acc.d[j] = q
                xnew(q) == IF q = Nil THEN Nil
                           ELSE CHOOSE j \in 1 .. Len(acc.x) : acc.x[j] = q
                rnew(r) == IF r.kind = "d" THEN DRef(dnew(r.id))
                           ELSE IF r.kind = "x" THEN XRef(xnew(r.id))
                           ELSE NilRef
                dpage(pg) == [c |-> pg.c,
                              d |-> [j \in DOMAIN pg.d |->
                                        IF j < pg.c THEN pg.d[j] ELSE zde],
                              n |-> dnew(pg.n), p |-> dnew(pg.p)]
                xpage(pg) == [c |-> pg.c,
                              x |-> [j \in DOMAIN pg.x |->
                                        IF j > pg.c THEN zxe
                                        ELSE [ch |-> rnew(pg.x[j].ch),
                                              sep |-> IF j < pg.c
                                                      THEN dnew(pg.x[j].sep)
                                                      ELSE Nil]]]
            IN  [m |-> [t |-> [m.t EXCEPT !.first = dnew(@), !.last = dnew(@),
                                          !.r = rnew(@), !.ver = @ - base],
                        d |-> [j \in 1 .. Len(acc.d) |->
                                  dpage(m.d[acc.d[j]])],
                        x |-> [j \in 1 .. Len(acc.x) |->
                                  xpage(m.x[acc.x[j]])]],
                 e |-> IF e.err = "none" THEN e
                       ELSE [e EXCEPT !.q = dnew(@), !.ver = @ - base]]
    IN  renamed(Walk(m, <<m.t.r, DRef(m.t.first), DRef(m.t.last), DRef(e.q)>>,
                     [d |-> <<>>, x |-> <<>>]))

\* ---------------------------------------------------------------- state

\* The tree and its pages as one value.
M == [t |-> tree, d |-> leaves, x |-> indexes]

\* What the last call was, and the ok or the error it returned.
Call(op, ok, err) == [op |-> op, ok |-> ok, err |-> err]

\* What has been seen of the enumerator since it was created: whether a
\* Next or Prev returned io.EOF, whether one returned an entry, and whether
\* the last entry returned, if any, was returned by Next (fwd).
Fresh == [eof |-> FALSE, produced |-> FALSE, fwd |-> TRUE]

Seen(r, fwd) ==
    [eof |-> obs.eof \/ r.err = EOF,
     produced |-> obs.produced \/ r.err = NoErr,
     fwd |-> IF r.err = NoErr THEN fwd ELSE obs.fwd]

Init ==
    /\ tree = TreeNew.t
    /\ leaves = TreeNew.d
    /\ indexes = TreeNew.x
    /\ enum = NoEnum
    /\ last = Call("TreeNew", FALSE, NoErr)
    /\ ref = [k \in Keys |-> 0]
    /\ obs = Fresh

\* The state after a call that leaves the tree as m and the enumerator as e.
Stored(cn) ==
    /\ tree' = cn.m.t
    /\ leaves' = cn.m.d
    /\ indexes' = cn.m.x
    /\ enum' = cn.e

Becomes(m, e) == Stored(Canon(m, e))

DoSet(k, v) ==
    /\ Becomes(Set(M, k, v), enum)
    /\ last' = Call("Set", FALSE, NoErr)
    /\ ref' = [ref EXCEPT ![k] = v]
    /\ UNCHANGED obs

PutDone(k, u, r) ==
    /\ Becomes(r.m, enum)
    /\ last' = Call("Put", r.written, NoErr)
    /\ ref' = IF r.written THEN [ref EXCEPT ![k] = u.v] ELSE ref
    /\ UNCHANGED obs

DoPut(k, u) == PutDone(k, u, Put(M, k, u))

DeleteDone(k, r) ==
    /\ Becomes(r.m, enum)
    /\ last' = Call("Delete", r.ok, NoErr)
    /\ ref' = [ref EXCEPT ![k] = 0]
    /\ UNCHANGED obs

DoDelete(k) == DeleteDone(k, Delete(M, k))

DoClear ==
    /\ Becomes(Clear(M), enum)
    /\ last' = Call("Clear", FALSE, NoErr)
    /\ ref' = [k \in DOMAIN ref |-> 0]
    /\ UNCHANGED obs

DoGet(k) ==
    /\ last' = Call("Get", Get(M, k).ok, NoErr)
    /\ UNCHANGED <<tree, leaves, indexes, enum, ref, obs>>

DoFirst ==
    /\ last' = Call("First", FALSE, NoErr)
    /\ UNCHANGED <<tree, leaves, indexes, enum, ref, obs>>

DoLast ==
    /\ last' = Call("Last", FALSE, NoErr)
    /\ UNCHANGED <<tree, leaves, indexes, enum, ref, obs>>

DoLen ==
    /\ last' = Call("Len", FALSE, NoErr)
    /\ UNCHANGED <<tree, leaves, indexes, enum, ref, obs>>

SeekDone(r) ==
    /\ Becomes(M, r.e)
    /\ last' = Call("Seek", r.ok, NoErr)
    /\ obs' = Fresh
    /\ UNCHANGED ref

DoSeek(k) == SeekDone(Seek(M, k))

\* With io.EOF, SeekFirst and SeekLast return no enumerator.
SeekEndDone(op, r) ==
    /\ Becomes(M, IF r.err = NoErr THEN r.e ELSE NoEnum)
    /\ last' = Call(op, FALSE, r.err)
    /\ obs' = Fresh
    /\ UNCHANGED ref

DoSeekFirst == SeekEndDone("SeekFirst", SeekFirst(M))

DoSeekLast == SeekEndDone("SeekLast", SeekLast(M))

\* MoveDone with a write to the tree: the version counter is incremented.
MoveDoneTouches(op, fwd, r) ==
    /\ Becomes([M EXCEPT !.t.ver = @ + 1], r.e)
    /\ last' = Call(op, FALSE, r.err)
    /\ obs' = Seen(r, fwd)
    /\ UNCHANGED ref

MoveDone(op, fwd, r) ==
    /\ Becomes(M, r.e)
    /\ last' = Call(op, FALSE, r.err)
    /\ obs' = Seen(r, fwd)
    /\ UNCHANGED ref

DoNext ==
    /\ enum # NoEnum
    /\ MoveDone("Next", TRUE, Next(M, enum))

DoPrev ==
    /\ enum # NoEnum
    /\ MoveDone("Prev", FALSE, Prev(M, enum))

\* How far the tree's version is ahead of the enumerator's.
Lag == IF enum = NoEnum THEN 0 ELSE tree.ver - enum.ver

\* The tree alone: the mutating calls, from a new tree.
StepT ==
    \/ \E k \in Keys, v \in Vals : DoSet(k, v)
    \/ \E k \in Keys, u \in Updaters : DoPut(k, u)
    \/ \E k \in Keys : DoDelete(k)
    \/ DoClear

SpecT == Init /\ [][StepT]_vars

\* The tree and an enumerator: a mutating call is made only while the tree's
\* version is less than MaxLag ahead of the enumerator's.
MaxEKey == 4
MaxLag == 3
EKeys == 1 .. MaxEKey

StepE ==
    \/ \E k \in EKeys : Lag < MaxLag /\ DoSet(k, 1)
    \/ \E k \in EKeys : Lag < MaxLag /\ DoDelete(k)
    \/ Lag < MaxLag /\ DoClear
    \/ \E k \in EKeys : DoSeek(k)
    \/ DoSeekFirst
    \/ DoSeekLast
    \/ DoNext
    \/ DoPrev

SpecE == Init /\ [][StepE]_vars

\* A tree of three levels: the tree that Set builds from the keys 1 .. XSeed
\* in ascending order, then Set, Put and Delete of the XLow keys at its low
\* end and of the XMore keys above it.
XSeed == 15
XLow == 3
XMore == 2
XKeys == 1 .. XSeed + XMore
XFree == (1 .. XLow) \cup (XSeed + 1 .. XSeed + XMore)

RECURSIVE Seeded(_)
Seeded(n) == IF n = 0 THEN TreeNew ELSE Set(Seeded(n - 1), n, 1)

Holds(cn) ==
    /\ tree = cn.m.t
    /\ leaves = cn.m.d
    /\ indexes = cn.m.x
    /\ enum = cn.e

InitX ==
    /\ Holds(Canon(Seeded(XSeed), NoEnum))
    /\ last = Call("Set", FALSE, NoErr)
    /\ ref = [k \in XKeys |-> IF k <= XSeed THEN 1 ELSE 0]
    /\ obs = Fresh

StepX ==
    \/ \E k \in XFree : DoSet(k, 1)
    \/ \E k \in XFree, u \in {w \in Updaters : w.v = 1} : DoPut(k, u)
    \/ \E k \in XFree : DoDelete(k)

SpecX == InitX /\ [][StepX]_vars

\* The calls of the example program: TreeNew with cmp a - b, then Set, First,
\* Last, Len, Delete and Get with the keys 1, 5 and 10 and the strings "one",
\* "five" and "ten", a string being written as the number it names.
SKeys == {1, 5, 10}
SVals == {1, 5, 10}

InitS ==
    /\ tree = TreeNew.t
    /\ leaves = TreeNew.d
    /\ indexes = TreeNew.x
    /\ enum = NoEnum
    /\ last = Call("TreeNew", FALSE, NoErr)
    /\ ref = [k \in SKeys |-> 0]
    /\ obs = Fresh

StepS ==
    \/ \E k \in SKeys, v \in SVals : DoSet(k, v)
    \/ \E k \in SKeys : DoDelete(k)
    \/ \E k \in SKeys : DoGet(k)
    \/ DoFirst
    \/ DoLast
    \/ DoLen

SpecS == InitS /\ [][StepS]_vars

\* A tree that is built and then enumerated: Set, Delete and Clear are called
\* until an enumerator is made, and none is called after that.
StepK ==
    \/ \E k \in Keys : enum = NoEnum /\ DoSet(k, 1)
    \/ \E k \in Keys : enum = NoEnum /\ DoDelete(k)
    \/ enum = NoEnum /\ DoClear
    \/ \E k \in 0 .. MaxKey + 1 : DoSeek(k)
    \/ DoSeekFirst
    \/ DoSeekLast
    \/ DoNext
    \/ DoPrev

SpecK == Init /\ [][StepK]_vars

\* Keys set in ascending order: every Set is of a key above the keys set so
\* far, on a tree that starts new, and an enumerator walks the tree forward.
MaxAKey == 4
AKeys == 0 .. MaxAKey

Held == {k \in DOMAIN ref : ref[k] # 0}

InitA ==
    /\ tree = TreeNew.t
    /\ leaves = TreeNew.d
    /\ indexes = TreeNew.x
    /\ enum = NoEnum
    /\ last = Call("TreeNew", FALSE, NoErr)
    /\ ref = [k \in AKeys |-> 0]
    /\ obs = Fresh

StepA ==
    \/ \E k \in AKeys, v \in Vals :
           /\ \A k2 \in Held : k2 < k
           /\ DoSet(k, v)
    \/ DoSeekFirst
    \/ DoNext

SpecA == InitA /\ [][StepA]_vars

\* A tree that grows at its high end: the tree that Set builds from the keys
\* 1 .. GSeed in ascending order, whose root is an index page that holds all
\* the separators it can; then Set and Put of the next key above the keys
\* held, up to GMore of them, and Set, Put and Delete of the GLow lowest keys.
GSeed == 11
GLow == 3
GMore == 7
GKeys == 1 .. GSeed + GMore

InitG ==
    /\ Holds(Canon(Seeded(GSeed), NoEnum))
    /\ last = Call("Set", FALSE, NoErr)
    /\ ref = [k \in GKeys |-> IF k <= GSeed THEN 1 ELSE 0]
    /\ obs = Fresh

StepG ==
    \/ \E k \in GKeys :
           /\ \A k2 \in Held : k2 < k
           /\ \A k2 \in GKeys : k2 < k => k2 <= GLow \/ k2 \in Held
           /\ DoSet(k, 1)
    \/ \E k \in GKeys, u \in {w \in Updaters : w.v = 1} :
           /\ \A k2 \in Held : k2 < k
           /\ \A k2 \in GKeys : k2 < k => k2 <= GLow \/ k2 \in Held
           /\ DoPut(k, u)
    \/ \E k \in 1 .. GLow : DoSet(k, 1)
    \/ \E k \in 1 .. GLow : DoDelete(k)

SpecG == InitG /\ [][StepG]_vars

\* The tree of the example program after its three calls of Set.
Main == Set(Set(Set(TreeNew, 5, 5), 10, 10), 1, 1)

\* ------------------------------------------------------- the reference map

\* ref is the map the calls made so far describe: ref[k] is the value of the
\* last Set or writing Put of k, and 0 when k was never set or was deleted
\* since.
Present == {k \in Keys : ref[k] # 0}

RECURSIVE Sorted(_)
Sorted(S) ==
    IF S = {} THEN <<>>
    ELSE LET lo == CHOOSE a \in S : \A b \in S : a <= b
         IN  <<lo>> \o Sorted(S \ {lo})

\* The entries of ref in key order, as Next reports them.
RefEntries ==
    LET ks == Sorted(Present) IN
    [j \in 1 .. Len(ks) |-> [k |-> ks[j], v |-> ref[ks[j]], err |-> NoErr]]

Reverse(sq) == [j \in 1 .. Len(sq) |-> sq[Len(sq) + 1 - j]]

AtEOF == [k |-> 0, v |-> 0, err |-> EOF]

\* What n successive calls of Next (fwd) or Prev on e return, the tree being m.
RECURSIVE Run(_, _, _, _)
Run(m, e, fwd, n) ==
    IF n = 0 THEN <<>>
    ELSE LET r == IF fwd THEN Next(m, e) ELSE Prev(m, e)
         IN  <<[k |-> r.k, v |-> r.v, err |-> r.err]>> \o Run(m, r.e, fwd, n - 1)

\* The leaves under page q, left to right.
RECURSIVE LeavesUnder(_, _)
RECURSIVE LeavesOfCh(_, _, _)
LeavesOfCh(m, q, i) ==
    IF i > m.x[q].c THEN <<>>
    ELSE LeavesUnder(m, m.x[q].x[i].ch) \o LeavesOfCh(m, q, i + 1)
LeavesUnder(m, q) ==
    IF q.kind = "d" THEN <<q.id>>
    ELSE IF q.kind = "x" THEN LeavesOfCh(m, q.id, 0)
    ELSE <<>>

\* The index pages under page q, q included.
RECURSIVE IndexesUnder(_, _)
RECURSIVE IndexesOfCh(_, _, _)
IndexesOfCh(m, q, i) ==
    IF i > m.x[q].c THEN {}
    ELSE IndexesUnder(m, m.x[q].x[i].ch) \cup IndexesOfCh(m, q, i + 1)
IndexesUnder(m, q) ==
    IF q.kind = "x" THEN {q.id} \cup IndexesOfCh(m, q.id, 0) ELSE {}

\* The leaves from q along the next links, at most n of them.
RECURSIVE Chain(_, _, _)
Chain(m, q, n) ==
    IF q = Nil \/ n = 0 THEN <<>> ELSE <<q>> \o Chain(m, m.d[q].n, n - 1)

\* The keys of the occupied entries of the leaves qs, in order.
RECURSIVE KeysOf(_, _)
KeysOf(m, qs) ==
    IF qs = <<>> THEN <<>>
    ELSE [j \in 1 .. m.d[Head(qs)].c |-> m.d[Head(qs)].d[j - 1].k]
         \o KeysOf(m, Tail(qs))

Found(v) == [v |-> v, ok |-> TRUE]
NotFound == [v |-> 0, ok |-> FALSE]

\* ------------------------------------------------------------------ claims

\* C1: after any sequence of Set calls on a new tree (here: of Set, Put,
\* Delete and Clear calls), Get(k) returns the value of the last Set of k and
\* true, and the zero value and false for a key that is not set, also when k
\* is matched by a separator of an index page.
C1_UpsertGet ==
    \A k \in Keys :
        Get(M, k) = IF ref[k] # 0 THEN Found(ref[k]) ELSE NotFound

\* After a Set, the root index page matches by a separator a key whose value
\* is 1, and Get returns 2 for it once Set has set it to 2.
C1_Witness ==
    /\ last.op = "Set"
    /\ tree.r.kind = "x"
    /\ \E k \in Keys :
           /\ find(M, tree.r, k).ok
           /\ Get(M, k) = Found(1)
           /\ Get(Set(M, k, 2), k) = Found(2)

\* C2: Len() is the number of distinct keys present, in every state reached
\* by Set, Put, Delete and Clear.
C2_Len ==
    /\ TreeLen(M) = Cardinality(Present)
    /\ TreeLen(M) = Cardinality({k \in Keys : Get(M, k).ok})

\* A Delete that found its key has left three keys.
C2_Witness ==
    /\ last.op = "Delete"
    /\ last.ok
    /\ TreeLen(M) = 3

\* C3: with n >= 1 keys, SeekFirst() and n calls of Next() return every
\* present key once, in increasing order, each with its value, and the next
\* call of Next() returns io.EOF.
C3_Forward ==
    LET n == Cardinality(Present)
        sf == SeekFirst(M)
    IN  n >= 1 =>
            /\ sf.err = NoErr
            /\ Run(M, sf.e, TRUE, n + 1) = RefEntries \o <<AtEOF>>

\* The walk crosses three leaves at least.
C3_Witness ==
    /\ Cardinality(Present) >= 4
    /\ Len(LeavesUnder(M, tree.r)) >= 3
    /\ Run(M, SeekFirst(M).e, TRUE, Cardinality(Present) + 1)
           = RefEntries \o <<AtEOF>>

\* C4: with n >= 1 keys, SeekLast() and n calls of Prev() return the reverse
\* of what SeekFirst() and n calls of Next() return, and the next call of
\* Prev() returns io.EOF.
C4_Backward ==
    LET n == Cardinality(Present)
        sf == SeekFirst(M)
        sl == SeekLast(M)
    IN  n >= 1 =>
            /\ sl.err = NoErr
            /\ Run(M, sl.e, FALSE, n + 1)
                   = Reverse(Run(M, sf.e, TRUE, n)) \o <<AtEOF>>

C4_Witness ==
    /\ Cardinality(Present) >= 4
    /\ Len(LeavesUnder(M, tree.r)) >= 3
    /\ Run(M, SeekLast(M).e, FALSE, Cardinality(Present) + 1)
           = Reverse(RefEntries) \o <<AtEOF>>

\* C5: Delete(k) returns true exactly when k is present; afterwards Get(k)
\* finds nothing and Get of every other key returns what it returned before.
C5_Delete ==
    \A k \in Keys :
        LET r == Delete(M, k) IN
        /\ r.ok = (ref[k] # 0)
        /\ Get(r.m, k) = NotFound
        /\ \A k2 \in Keys \ {k} : Get(r.m, k2) = Get(M, k2)

\* Whether Delete(k) meets k as a separator of the root index page, the
\* leaf it refers to holding more than kd entries (big) or not.
SepHit(k, big) ==
    /\ tree.r.kind = "x"
    /\ find(M, tree.r, k).ok
    /\ (leaves[indexes[tree.r.id].x[find(M, tree.r, k).i].sep].c > kd) = big

\* After a Delete, the root matches a key by a separator whose leaf holds
\* more than kd entries and another by one whose leaf holds kd, and Delete
\* removes either.
C5_Witness ==
    /\ last.op = "Delete"
    /\ \E k \in Keys : SepHit(k, TRUE) /\ Delete(M, k).ok
                       /\ ~Get(Delete(M, k).m, k).ok
    /\ \E k \in Keys : SepHit(k, FALSE) /\ Delete(M, k).ok
                       /\ ~Get(Delete(M, k).m, k).ok

\* C6: a leaf that is not the root holds kd to 2*kd entries, a root leaf at
\* most 2*kd.
C6_LeafOccupancy ==
    LET qs == LeavesUnder(M, tree.r) IN
    \A j \in 1 .. Len(qs) :
        /\ leaves[qs[j]].c <= 2 * kd
        /\ tree.r.kind = "x" => leaves[qs[j]].c >= kd

\* A Delete has merged two leaves: three leaves are left under the root, one
\* of them full and one at the minimum.
C6_Witness ==
    LET qs == LeavesUnder(M, tree.r) IN
    /\ last.op = "Delete"
    /\ last.ok
    /\ Len(qs) = 3
    /\ \E j \in 1 .. 3 : leaves[qs[j]].c = 2 * kd
    /\ \E j \in 1 .. 3 : leaves[qs[j]].c = kd

\* C8: the leaves from the tree's first leaf along the next links are the
\* leaves of the tree in the order of the index pages, they end at the
\* tree's last leaf, and their entries are the keys of the tree, each once,
\* in increasing order.
C8_LeafChain ==
    LET qs == Chain(M, tree.first, Len(leaves) + 1) IN
    /\ qs = LeavesUnder(M, tree.r)
    /\ tree.last = IF qs = <<>> THEN Nil ELSE qs[Len(qs)]
    /\ KeysOf(M, qs) = Sorted(Present)

C8_Witness ==
    /\ last.op = "Delete"
    /\ last.ok
    /\ Len(Chain(M, tree.first, Len(leaves) + 1)) = 3
    /\ Cardinality(Present) = 4

\* C9: once a Next or Prev of an enumerator has returned io.EOF, every later
\* Next and Prev of that enumerator returns io.EOF, whatever Set, Delete and
\* Clear do to the tree in between.
C9_StickyEOF ==
    (enum # NoEnum /\ obs.eof) =>
        /\ Next(M, enum).err = EOF
        /\ Prev(M, enum).err = EOF

\* The smallest key of ref above k, as Next reports it, or io.EOF.
After(k) ==
    LET S == {k2 \in Present : k2 > k} IN
    IF S = {} THEN AtEOF
    ELSE LET lo == CHOOSE a \in S : \A b \in S : a <= b
         IN  [k |-> lo, v |-> ref[lo], err |-> NoErr]

\* C10: when the next Next of an enumerator that is new or whose last entry
\* came from Next would return key K, and K is deleted before that call,
\* the call returns the entry that followed K in key order, or io.EOF when
\* K was the largest key.
C10_DeleteAhead ==
    (enum # NoEnum /\ obs.fwd) =>
        LET n == Next(M, enum) IN
        n.err = NoErr =>
            LET r == Next(Delete(M, n.k).m, enum)
            IN  [k |-> r.k, v |-> r.v, err |-> r.err] = After(n.k)

\* Next has returned the predecessor of K and left the enumerator on K, the
\* last entry of a leaf that has a next leaf; K is deleted, and the Next
\* after it re-seeks and returns the key above K from the next leaf.
C10_Witness ==
    /\ enum # NoEnum
    /\ last.op = "Next"
    /\ last.err = NoErr
    /\ enum.ver = tree.ver
    /\ enum.q # Nil
    /\ enum.i = leaves[enum.q].c - 1
    /\ leaves[enum.q].n # Nil
    /\ LET n == Next(M, enum)
           d == Delete(M, n.k)
       IN  /\ n.err = NoErr
           /\ d.ok
           /\ d.m.t.ver # enum.ver
           /\ Next(d.m, enum).err = NoErr
           /\ Next(d.m, enum).k > n.k

\* The index pages other than the root, and the children of one.
NonRootIndexes == IndexesUnder(M, tree.r) \ {tree.r.id}
Children(q) == indexes[q].c + 1

\* C7, as stated: every index page that is not the root holds between kx+1
\* and 2*kx+1 children.
C7_IndexOccupancy ==
    \A q \in NonRootIndexes :
        Children(q) >= kx + 1 /\ Children(q) <= 2 * kx + 1

\* C7, amended: every index page that is not the root holds between kx and
\* 2*kx+2 children.  A page is split only when a later Set or Put descends
\* through it holding more than 2*kx separators, and refilled only when a
\* later Delete descends through it holding fewer than kx.
C7_IndexOccupancyLazy ==
    \A q \in NonRootIndexes :
        Children(q) >= kx /\ Children(q) <= 2 * kx + 2

\* After a Delete, one index page below the root holds kx children and
\* another holds 2*kx+2.
C7_Witness ==
    /\ last.op = "Delete"
    /\ \E q \in NonRootIndexes : Children(q) = kx
    /\ \E q \in NonRootIndexes : Children(q) = 2 * kx + 2

\* The entry of ref with the smallest key (lo) or the largest, as First and
\* Last report it; the zero entry when ref has no key.
RefEnd(lo) ==
    IF Present = {} THEN zde
    ELSE LET end == CHOOSE a \in Present :
                        \A b \in Present : IF lo THEN a <= b ELSE a >= b
         IN  [k |-> end, v |-> ref[end]]

\* C11: in every state reached by Set, Put, Delete and Clear, First() returns
\* the entry of the smallest key present and Last() that of the largest, each
\* with the value Get returns for the key; on an empty tree (new, cleared or
\* emptied by Delete) both return the zero key and the zero value.
C11_FirstLast ==
    /\ First(M) = RefEnd(TRUE)
    /\ Last(M) = RefEnd(FALSE)
    /\ Present # {} =>
           /\ Get(M, First(M).k) = Found(First(M).v)
           /\ Get(M, Last(M).k) = Found(Last(M).v)
    /\ tree.c = 0 => First(M) = zde /\ Last(M) = zde

\* A Delete has removed a key and left the smallest and the largest key in
\* different leaves under an index page.
C11_Witness ==
    /\ last.op = "Delete"
    /\ last.ok
    /\ tree.r.kind = "x"
    /\ tree.first # tree.last
    /\ First(M).k < Last(M).k
    /\ First(M) = RefEnd(TRUE)
    /\ Last(M) = RefEnd(FALSE)

\* C12: on a new tree with comparator a - b, after Set(5, "five"),
\* Set(10, "ten") and Set(1, "one"), in this or any order and whatever calls
\* came before, First() = (1, "one"), Last() = (10, "ten") and Len() = 3;
\* then Delete(5) returns true, Get(5) returns (zero, false) and Len() = 2.
C12_Scenario ==
    ref = [k \in SKeys |-> k] =>
        /\ First(M) = [k |-> 1, v |-> 1]
        /\ Last(M) = [k |-> 10, v |-> 10]
        /\ TreeLen(M) = 3
        /\ Delete(M, 5).ok
        /\ Get(Delete(M, 5).m, 5) = NotFound
        /\ TreeLen(Delete(M, 5).m) = 2

\* The state is the one the example program is in after its third Set, and
\* from it Delete(5) finds its key.
C12_Witness ==
    /\ last.op = "Set"
    /\ M = Canon(Main, NoEnum).m
    /\ ref = [k \in SKeys |-> k]
    /\ First(M) = [k |-> 1, v |-> 1]
    /\ Delete(M, 5).ok

\* The entries of ref over all its keys, in key order, as Next reports them.
HeldEntries ==
    LET ks == Sorted(Held) IN
    [j \in 1 .. Len(ks) |-> [k |-> ks[j], v |-> ref[ks[j]], err |-> NoErr]]

\* C13: after 2*kd+1 distinct keys were set in ascending order on a new tree
\* the root is an index page, while after 1 to 2*kd keys it is a leaf; and
\* after the 2*kd+1 keys SeekFirst() and 2*kd+1 calls of Next() return the
\* keys in ascending order and the next Next() returns io.EOF.
C13_SplitScenario ==
    /\ (Cardinality(Held) >= 1 /\ Cardinality(Held) <= 2 * kd) =>
           tree.r.kind = "d"
    /\ Cardinality(Held) = 2 * kd + 1 =>
           /\ tree.r.kind = "x"
           /\ SeekFirst(M).err = NoErr
           /\ Run(M, SeekFirst(M).e, TRUE, 2 * kd + 2)
                  = HeldEntries \o <<AtEOF>>

\* The keys 0 .. 2*kd were set in this order, the root is an index page, and
\* an enumerator has returned entries and then io.EOF from its last Next.
C13_Witness ==
    /\ Held = 0 .. 2 * kd
    /\ tree.r.kind = "x"
    /\ enum # NoEnum
    /\ last.op = "Next"
    /\ last.err = EOF
    /\ obs.produced
    /\ Run(M, SeekFirst(M).e, TRUE, 2 * kd + 2) = HeldEntries \o <<AtEOF>>

\* Whether the updater u, called by Put(k, u) in this state, returns
\* write = false.
NoWrite(k, u) == ~upd(u, Get(M, k).v, Get(M, k).ok).write

\* The index pages holding more than 2*kx separators that the search for k
\* passes on its way down from q without k matching a separator.
RECURSIVE Overfull(_, _, _)
Overfull(m, q, k) ==
    LET at(f) ==
            IF f.ok \/ q.kind # "x" THEN 0
            ELSE (IF m.x[q.id].c > 2 * kx THEN 1 ELSE 0)
                 + Overfull(m, m.x[q.id].x[f.i].ch, k)
    IN  at(find(m, q, k))

\* C14, as stated: when the updater returns write = false, Put returns the
\* value of k (zero when k is absent) and false, and the tree is as before
\* the call: the same pages with the same contents, the same Len and the
\* same version counter.
C14_PutNoWrite ==
    \A k \in DOMAIN ref, u \in Updaters :
        NoWrite(k, u) =>
            /\ Put(M, k, u).written = FALSE
            /\ Put(M, k, u).oldV = Get(M, k).v
            /\ Put(M, k, u).m = M

\* C14, amended: when the updater returns write = false, Put returns the
\* value of k (zero when k is absent) and false, and the leaves, the leaf
\* chain, Len and the value Get returns for every key are as before the
\* call.  The index pages and the version counter are as before unless the
\* descent passes an index page that holds more than 2*kx separators: each
\* such page is split before the updater is called, and each split adds one
\* to the version counter.
C14_PutNoWriteSplits ==
    \A k \in DOMAIN ref, u \in Updaters :
        NoWrite(k, u) =>
            LET kept(r) ==
                    /\ r.written = FALSE
                    /\ r.oldV = Get(M, k).v
                    /\ r.m.d = M.d
                    /\ [r.m.t EXCEPT !.r = NilRef, !.ver = 0]
                           = [M.t EXCEPT !.r = NilRef, !.ver = 0]
                    /\ \A k2 \in DOMAIN ref : Get(r.m, k2) = Get(M, k2)
                    /\ r.m.t.ver - M.t.ver = Overfull(M, M.t.r, k)
                    /\ Overfull(M, M.t.r, k) = 0 => r.m = M
            IN  kept(Put(M, k, u))

\* A Put whose updater declined has just returned, and a Put that declines
\* would now split an index page on its way down: the version counter and
\* the index pages change, the entries do not.
C14_Witness ==
    /\ last.op = "Put"
    /\ ~last.ok
    /\ \E k \in DOMAIN ref, u \in Updaters :
           /\ NoWrite(k, u)
           /\ Overfull(M, M.t.r, k) >= 1
           /\ Put(M, k, u).m.t.ver = M.t.ver + 1
           /\ Put(M, k, u).m.x # M.x
           /\ Put(M, k, u).m.d = M.d

\* C15: when the updater returns (v, true), Put(k, upd) leaves the tree in
\* the state Set(k, v) leaves it in from the same state (the same pages,
\* leaf chain, Len and version counter) and returns the value k had before
\* (zero when k was absent) and true.
C15_PutAsSet ==
    \A k \in DOMAIN ref, u \in Updaters :
        ~NoWrite(k, u) =>
            /\ Put(M, k, u).m = Set(M, k, u.v)
            /\ Put(M, k, u).written
            /\ Put(M, k, u).oldV = Get(M, k).v

\* A Put that wrote has just returned; a Put of an absent key would now
\* split an index page on its way and insert the key, as Set does, and a
\* Put of a key that a separator of the root matches would store a new
\* value, as Set does.
C15_Witness ==
    /\ last.op = "Put"
    /\ last.ok
    /\ \E k \in DOMAIN ref, u \in Updaters :
           /\ ~Get(M, k).ok
           /\ ~NoWrite(k, u)
           /\ Overfull(M, M.t.r, k) >= 1
           /\ Len(Put(M, k, u).m.x) > Len(M.x)
           /\ Put(M, k, u).m.t.c = M.t.c + 1
           /\ Put(M, k, u).m = Set(M, k, u.v)
    /\ \E k \in DOMAIN ref, u \in Updaters :
           /\ find(M, M.t.r, k).ok
           /\ M.t.r.kind = "x"
           /\ ~NoWrite(k, u)
           /\ u.v # Get(M, k).v
           /\ Put(M, k, u).m = Set(M, k, u.v)
           /\ Put(M, k, u).m # M

\* The entry of ref with the smallest key at or above k, as Next reports it,
\* or io.EOF.
AtOrAfter(k) ==
    LET S == {k2 \in Present : k2 >= k} IN
    IF S = {} THEN AtEOF
    ELSE LET lo == CHOOSE a \in S : \A b \in S : a <= b
         IN  [k |-> lo, v |-> ref[lo], err |-> NoErr]

\* What the call of Next or Prev that returned r reported.
Reported(r) == [k |-> r.k, v |-> r.v, err |-> r.err]

RefEndEntry(lo) == [k |-> RefEnd(lo).k, v |-> RefEnd(lo).v, err |-> NoErr]

\* C17: SeekFirst() and SeekLast() return io.EOF, and no enumerator, exactly
\* when the tree is empty; on a tree that is not empty the first Next() of
\* SeekFirst's enumerator returns the smallest key and the first Prev() of
\* SeekLast's the largest.
C17_SeekEnds ==
    /\ (SeekFirst(M).err = EOF) = (Present = {})
    /\ (SeekLast(M).err = EOF) = (Present = {})
    /\ (SeekFirst(M).err = NoErr) = (Present # {})
    /\ (SeekLast(M).err = NoErr) = (Present # {})
    /\ Present # {} =>
           /\ Reported(Next(M, SeekFirst(M).e)) = RefEndEntry(TRUE)
           /\ Reported(Prev(M, SeekLast(M).e)) = RefEndEntry(FALSE)
    /\ (last.op \in {"SeekFirst", "SeekLast"} /\ last.err = EOF) =>
           enum = NoEnum /\ Present = {}
    /\ (last.op \in {"SeekFirst", "SeekLast"} /\ last.err = NoErr) =>
           enum # NoEnum /\ Present # {}

\* SeekLast has returned an enumerator on a tree of three leaves or more;
\* its first Prev returns the largest key, and the first Next of SeekFirst's
\* enumerator the smallest.
C17_Witness ==
    /\ last.op = "SeekLast"
    /\ last.err = NoErr
    /\ enum.q = tree.last
    /\ Len(LeavesUnder(M, tree.r)) >= 3
    /\ Reported(Prev(M, enum)) = RefEndEntry(FALSE)
    /\ Reported(Next(M, SeekFirst(M).e)) = RefEndEntry(TRUE)
    /\ RefEnd(TRUE).k < RefEnd(FALSE).k

\* The leaf the search for a key k that is absent ends in, from page q.
RECURSIVE TargetLeaf(_, _, _)
TargetLeaf(m, q, k) ==
    LET at(f) == IF q.kind = "x" THEN TargetLeaf(m, m.x[q.id].x[f.i].ch, k)
                 ELSE q.id
    IN  at(find(m, q, k))

\* What a call that leaves the tree as m adds to the version counter.
Bump(m) == m.t.ver - M.t.ver

\* The insertion of the absent key k makes no internal move: the tree is
\* empty, or no index page on the way is split and the leaf has room.
PlainInsert(k) ==
    \/ M.t.r = NilRef
    \/ /\ Overfull(M, M.t.r, k) = 0
       /\ M.d[TargetLeaf(M, M.t.r, k)].c < 2 * kd

\* The call that leaves the tree as m has changed one leaf and nothing else
\* but the tree's count and version.
OneLeafChanged(m) ==
    /\ m.x = M.x
    /\ m.t.r = M.t.r
    /\ Len(m.d) = Len(M.d)
    /\ Cardinality({q \in 1 .. Len(M.d) : m.d[q] # M.d[q]}) = 1

\* The updaters that write whatever they are given.
Writers == {u \in Updaters : u.kind = "always"}

\* C18, as stated: every Set that inserts a key, every Put that writes and
\* every Delete that removes a key adds exactly 1 to the version counter,
\* whatever internal moves the call makes.
C18_VersionOnce ==
    \A k \in DOMAIN ref :
        /\ ~Get(M, k).ok => \A v \in Vals : Bump(Set(M, k, v)) = 1
        /\ \A u \in Writers : Bump(Put(M, k, u).m) = 1
        /\ Get(M, k).ok => Bump(Delete(M, k).m) = 1

\* C18, amended: every Set or Put that inserts a key and every Delete that
\* removes one adds at least 1 to the version counter, and exactly 1 exactly
\* when the call makes no internal move: an insertion into a leaf with room
\* below index pages none of which is split, a removal that changes one leaf
\* and nothing else.  A Put that overwrites the value of a key adds 1 for
\* each index page split on its way and nothing for the write.
C18_VersionPerMove ==
    \A k \in DOMAIN ref :
        /\ ~Get(M, k).ok =>
               \A v \in Vals :
                   /\ Bump(Set(M, k, v)) >= 1
                   /\ (Bump(Set(M, k, v)) = 1) = PlainInsert(k)
        /\ ~Get(M, k).ok =>
               \A u \in Writers :
                   /\ Bump(Put(M, k, u).m) >= 1
                   /\ (Bump(Put(M, k, u).m) = 1) = PlainInsert(k)
        /\ Get(M, k).ok =>
               \A u \in Writers :
                   Bump(Put(M, k, u).m) = Overfull(M, M.t.r, k)
        /\ Get(M, k).ok =>
               /\ Bump(Delete(M, k).m) >= 1
               /\ (Bump(Delete(M, k).m) = 1) = OneLeafChanged(Delete(M, k).m)

\* After a Delete, one Set would add 1 to the version counter and another 3
\* or more (overflow, split and insert), and one Delete would add 1 and
\* another 3 or more.
C18_Witness ==
    /\ last.op = "Delete"
    /\ last.ok
    /\ \E k \in DOMAIN ref : ~Get(M, k).ok /\ Bump(Set(M, k, 1)) = 1
    /\ \E k \in DOMAIN ref : ~Get(M, k).ok /\ Bump(Set(M, k, 1)) >= 3
    /\ \E k \in DOMAIN ref : Get(M, k).ok /\ Bump(Delete(M, k).m) = 1
    /\ \E k \in DOMAIN ref : Get(M, k).ok /\ Bump(Delete(M, k).m) >= 3

\* The tree m without its version counter, and without its values as well.
Unversioned(m) == [m EXCEPT !.t.ver = 0]

Shape(m) ==
    LET entry(it) == [k |-> it.k, v |-> 0]
        page(pg) == [pg EXCEPT !.d = [j \in DOMAIN pg.d |-> entry(pg.d[j])]]
    IN  [t |-> [m.t EXCEPT !.ver = 0],
         d |-> [q \in DOMAIN m.d |-> page(m.d[q])],
         x |-> m.x]

\* The trees the calls of Set, Put, Delete and Clear leave from this state.
Outcomes ==
    {Set(M, k, v) : k \in DOMAIN ref, v \in Vals}
        \cup {Put(M, k, u).m : k \in DOMAIN ref, u \in Updaters}
        \cup {Delete(M, k).m : k \in DOMAIN ref}
        \cup {Clear(M)}

\* C19, as stated: the version counter never decreases, and it increases
\* across every call that changes the structure of the tree or a stored
\* value, a Set or Put that only overwrites the value of a key included.
C19_VersionCovers ==
    \A m \in Outcomes :
        /\ Bump(m) >= 0
        /\ Unversioned(m) # Unversioned(M) => Bump(m) > 0

\* C19, amended: the version counter never decreases, and it increases
\* across a call exactly when the call changes the structure of the tree:
\* the keys, the pages or the links.  A Set or Put that only overwrites the
\* value of a key changes a stored value and leaves the counter as it was.
C19_VersionStructural ==
    /\ \A m \in Outcomes :
           /\ Bump(m) >= 0
           /\ (Bump(m) > 0) = (Shape(m) # Shape(M))
    /\ \A k \in DOMAIN ref, v \in Vals :
           (Get(M, k).ok /\ Get(M, k).v # v /\ Overfull(M, M.t.r, k) = 0) =>
               /\ Bump(Set(M, k, v)) = 0
               /\ Unversioned(Set(M, k, v)) # Unversioned(M)
               /\ Put(M, k, [kind |-> "always", v |-> v]).m = Set(M, k, v)

\* A Set has overwritten a value with another; a further Set of that key
\* with the first value would change the tree and not the version counter,
\* whether the key is matched by a separator or in a leaf, and a Set of an
\* absent key would change both.
C19_Witness ==
    /\ last.op = "Set"
    /\ tree.r.kind = "x"
    /\ \E k \in DOMAIN ref :
           /\ ref[k] = 2
           /\ find(M, tree.r, k).ok
           /\ Bump(Set(M, k, 1)) = 0
           /\ Set(M, k, 1) # M
    /\ \E k \in DOMAIN ref :
           /\ ref[k] = 2
           /\ ~find(M, tree.r, k).ok
           /\ Bump(Set(M, k, 1)) = 0
           /\ Set(M, k, 1) # M
    /\ \E k \in DOMAIN ref :
           /\ ref[k] = 0
           /\ Bump(Set(M, k, 1)) > 0

\* The tree m as the program can tell it from another: the pages it can
\* reach, and no version counter.
Observable(m) == Unversioned(Canon(m, NoEnum).m)

\* Two calls of Set and a Delete on the tree m: the tree they leave and what
\* Delete returns.
Reused(m, k1, k2) ==
    LET deleted(r) == [m |-> Observable(r.m), ok |-> r.ok]
    IN  deleted(Delete(Set(Set(m, k1, 1), k2, 2), k1))

\* C20: after Clear() the tree is empty: Len() = 0, Get finds no key, First()
\* and Last() return zero values, SeekFirst() and SeekLast() return io.EOF;
\* and the tree is a new tree but for its version counter, so that the calls
\* of Set and Delete made on it do what they do on a new tree.
C20_Clear ==
    /\ TreeLen(Clear(M)) = 0
    /\ \A k \in 0 .. MaxKey + 1 : Get(Clear(M), k) = NotFound
    /\ First(Clear(M)) = zde
    /\ Last(Clear(M)) = zde
    /\ SeekFirst(Clear(M)).err = EOF
    /\ SeekLast(Clear(M)).err = EOF
    /\ Observable(Clear(M)) = TreeNew
    /\ \A k1 \in Keys, k2 \in Keys :
           Reused(Clear(M), k1, k2) = Reused(TreeNew, k1, k2)
    /\ last.op = "Clear" =>
           /\ Unversioned(M) = TreeNew
           /\ Present = {}

\* Clear is called on a tree of three leaves or more under an index page and
\* leaves a tree that Set fills as it fills a new one.
C20_Witness ==
    /\ tree.r.kind = "x"
    /\ Len(LeavesUnder(M, tree.r)) >= 3
    /\ TreeLen(M) >= 4
    /\ TreeLen(Clear(M)) = 0
    /\ Clear(M).t.ver = M.t.ver + 1
    /\ Observable(Clear(M)) = TreeNew
    /\ Get(Set(Clear(M), 1, 2), 1) = Found(2)

\* C21: when Delete removes the last key, the tree is left with no root, no
\* first leaf and no last leaf and with Len() = 0, the state Clear() leaves;
\* and whenever Len() = 0 the tree has no root, and the other way round.
C21_DeleteToEmpty ==
    /\ (tree.c = 0) = (tree.r = NilRef)
    /\ tree.c = 0 => tree.first = Nil /\ tree.last = Nil /\ leaves = <<>>
    /\ \A k \in DOMAIN ref :
           (TreeLen(M) = 1 /\ Get(M, k).ok) =>
               /\ Delete(M, k).ok
               /\ Delete(M, k).m.t.r = NilRef
               /\ Delete(M, k).m.t.first = Nil
               /\ Delete(M, k).m.t.last = Nil
               /\ TreeLen(Delete(M, k).m) = 0
               /\ Observable(Delete(M, k).m) = Observable(Clear(M))

\* A Delete has removed the last key of the tree.
C21_Witness ==
    /\ last.op = "Delete"
    /\ last.ok
    /\ tree.c = 0
    /\ tree.r = NilRef
    /\ tree.first = Nil
    /\ tree.last = Nil

\* What Get returns for k2 once the value of k is v.
GetWith(k, v, k2) == IF k2 = k THEN Found(v) ELSE Get(M, k2)

\* C22, as stated: Set(k, v) of a key that is present changes the value
\* stored for k and nothing else: no page is created, split, merged or
\* rebalanced, no entry or separator moves, and Len() is as before.
C22_SetExisting ==
    \A k \in DOMAIN ref, v \in Vals :
        Get(M, k).ok =>
            /\ Shape(Set(M, k, v)) = Shape(M)
            /\ TreeLen(Set(M, k, v)) = TreeLen(M)
            /\ \A k2 \in DOMAIN ref : Get(Set(M, k, v), k2) = GetWith(k, v, k2)

\* C22, amended: Set(k, v) of a key that is present changes the value stored
\* for k; no leaf is created, split, merged or rebalanced, no entry moves,
\* and Len() is as before.  The index pages are as before unless the descent
\* passes an index page that holds more than 2*kx separators without k
\* matching one: each such page is split, as in every descent of Set, and
\* each split adds one to the version counter.
C22_SetExistingSplits ==
    \A k \in DOMAIN ref, v \in Vals :
        Get(M, k).ok =>
            LET kept(m) ==
                    /\ Shape(m).d = Shape(M).d
                    /\ [m.t EXCEPT !.r = NilRef, !.ver = 0]
                           = [M.t EXCEPT !.r = NilRef, !.ver = 0]
                    /\ \A k2 \in DOMAIN ref : Get(m, k2) = GetWith(k, v, k2)
                    /\ Bump(m) = Overfull(M, M.t.r, k)
                    /\ Len(m.x) = Len(M.x) + Overfull(M, M.t.r, k)
                    /\ Overfull(M, M.t.r, k) = 0 => Shape(m) = Shape(M)
            IN  kept(Set(M, k, v))

\* After a Set, the Set of another value for a key that is present would
\* split an index page on its way down and store the value.
C22_Witness ==
    /\ last.op = "Set"
    /\ \E k \in DOMAIN ref :
           /\ Get(M, k) = Found(1)
           /\ Overfull(M, M.t.r, k) >= 1
           /\ Set(M, k, 2).x # M.x
           /\ Get(Set(M, k, 2), k) = Found(2)
           /\ Shape(Set(M, k, 2)).d = Shape(M).d

\* Where the descent of Set or Put for a key k that is absent arrives: the
\* tree after the index pages on the way were split, the leaf q, its parent
\* p, the index pi of q in p and the index i of k in q.
RECURSIVE InsertPoint(_, _, _, _, _)
InsertPoint(m, p, q, pi, k) ==
    LET down(s) == InsertPoint(s.m, s.pp, s.m.x[s.pp].x[s.i].ch, s.i, k)
        at(f) ==
            IF q.kind = "x"
            THEN down(IF m.x[q.id].c > 2 * kx
                      THEN splitX(m, p, q.id, pi, f.i)
                      ELSE [m |-> m, pp |-> q.id, i |-> f.i])
            ELSE [m |-> m, p |-> p, q |-> q.id, pi |-> pi, i |-> f.i]
    IN  at(find(m, q, k))

\* The keys of the tree m along its leaf chain.
ChainKeys(m) == KeysOf(m, Chain(m, m.t.first, Len(m.d) + 1))

\* The leaves of m whose count or entries differ from those of a, the leaves
\* that a does not have included.
Touched(a, m) ==
    {q \in 1 .. Len(m.d) :
        q > Len(a.d) \/ m.d[q].c # a.d[q].c \/ m.d[q].d # a.d[q].d}

\* Which way overflow goes for the full leaf at the insert point ip.
LeftHasRoom(ip) ==
    siblings(ip.m, ip.p, ip.pi).l # Nil
        /\ ip.m.d[siblings(ip.m, ip.p, ip.pi).l].c < 2 * kd

RightHasRoom(ip) ==
    siblings(ip.m, ip.p, ip.pi).r # Nil
        /\ ip.m.d[siblings(ip.m, ip.p, ip.pi).r].c < 2 * kd

\* C23 for the Set or Put of the absent key k that leaves the tree as m, the
\* descent having arrived at ip with the leaf ip.q full.
OverflowOrder(k, ip, m) ==
    LET l == siblings(ip.m, ip.p, ip.pi).l
        r == siblings(ip.m, ip.p, ip.pi).r
        grown(s) ==
            /\ Len(m.d) = Len(ip.m.d)
            /\ m.x = ip.m.x
            /\ m.d[s].c = ip.m.d[s].c + 1
            /\ m.d[ip.q].c = 2 * kd
            /\ Touched(ip.m, m) \subseteq {s, ip.q}
        halved ==
            /\ Len(m.d) = Len(ip.m.d) + 1
            /\ m.d[ip.q].c + m.d[Len(m.d)].c = 2 * kd + 1
            /\ m.d[ip.q].c >= kd
            /\ m.d[Len(m.d)].c >= kd
            /\ m.d[ip.q].n = Len(m.d)
            /\ m.d[Len(m.d)].p = ip.q
    IN  /\ IF LeftHasRoom(ip) THEN grown(l)
           ELSE IF RightHasRoom(ip) THEN grown(r)
           ELSE halved
        /\ ChainKeys(m) = Sorted({k2 \in DOMAIN ref : Get(M, k2).ok} \cup {k})

\* C23: when Set or Put inserts a key into a leaf that holds 2*kd entries,
\* one entry moves to the left sibling under the same parent if that holds
\* fewer than 2*kd entries, and no leaf is created; otherwise one entry goes
\* to the right sibling under the same parent if that holds fewer than 2*kd,
\* and no leaf is created; otherwise a new leaf is created by a split.  The
\* keys afterwards are the keys before and the new key.
C23_OverflowOrder ==
    \A k \in DOMAIN ref :
        (M.t.r # NilRef /\ ~Get(M, k).ok) =>
            LET ordered(ip) ==
                    ip.m.d[ip.q].c = 2 * kd =>
                        /\ OverflowOrder(k, ip, Set(M, k, 1))
                        /\ OverflowOrder(k, ip,
                               Put(M, k, [kind |-> "always", v |-> 1]).m)
            IN  ordered(InsertPoint(M, Nil, M.t.r, -1, k))

\* A key is absent whose leaf is full while both siblings of the leaf under
\* its parent have room: Set moves an entry to the left one and leaves the
\* right one as it is.
C23_Witness ==
    /\ M.t.r # NilRef
    /\ \E k \in DOMAIN ref :
           /\ ~Get(M, k).ok
           /\ LET ip == InsertPoint(M, Nil, M.t.r, -1, k)
                  sib == siblings(ip.m, ip.p, ip.pi)
              IN  /\ ip.m.d[ip.q].c = 2 * kd
                  /\ LeftHasRoom(ip)
                  /\ RightHasRoom(ip)
                  /\ Set(M, k, 1).d[sib.l].c = M.d[sib.l].c + 1
                  /\ Set(M, k, 1).d[sib.r] = M.d[sib.r]
                  /\ Len(Set(M, k, 1).d) = Len(M.d)
                  /\ Get(Set(M, k, 1), k) = Found(1)

\* The index pages that a search for k passes from q down, each with its
\* parent p, its index pi in the parent and the index i at which the search
\* leaves it; the search ends at a leaf or at a separator that is k.
RECURSIVE PathX(_, _, _, _, _)
PathX(m, p, q, pi, k) ==
    LET at(f) ==
            <<[p |-> p, q |-> q.id, pi |-> pi, i |-> f.i]>>
                \o (IF f.ok THEN <<>>
                    ELSE PathX(m, q.id, m.x[q.id].x[f.i].ch, f.i, k))
    IN  IF q.kind = "x" THEN at(find(m, q, k)) ELSE <<>>

PathPages(m, k) ==
    LET pages(path) == {path[j].q : j \in 1 .. Len(path)}
    IN  pages(PathX(m, Nil, m.t.r, -1, k))

\* Page s.q of the tree was split on the way to m: it holds fewer separators
\* in m than it did.
WasSplit(s, m) == m.x[s.q].c < M.x[s.q].c

\* Page s.q was split on the way to m for key k into halves of n children:
\* one page r is new beside it, the half the descent left behind holds n
\* children and the other one n or, after a leaf split below it, n + 1; the
\* middle separator of the page is in the parent between the two halves, or
\* in a new root above them; and k is found under the half that holds the
\* search position s.i.
SplitHalves(s, m, k, n) ==
    \E r \in Len(M.x) + 1 .. Len(m.x) :
        LET mid == M.x[s.q].x[kx].sep
            go == IF s.i > kx THEN r ELSE s.q
            stay == IF s.i > kx THEN s.q ELSE r
            under(nr) ==
                /\ m.x[nr].x[IF s.pi >= 0 THEN s.pi ELSE 0].ch = XRef(s.q)
                /\ m.x[nr].x[IF s.pi >= 0 THEN s.pi ELSE 0].sep = mid
                /\ m.x[nr].x[IF s.pi >= 0 THEN s.pi + 1 ELSE 1].ch = XRef(r)
        IN  /\ m.x[stay].c + 1 = n
            /\ m.x[go].c + 1 \in {n, n + 1}
            /\ \A j \in 0 .. m.x[s.q].c - 1 : m.x[s.q].x[j].sep # mid
            /\ \A j \in 0 .. m.x[r].c - 1 : m.x[r].x[j].sep # mid
            /\ IF s.pi >= 0
               THEN /\ m.t.r = M.t.r
                    /\ m.x[s.p].c = M.x[s.p].c + 1
                    /\ under(s.p)
               ELSE /\ m.t.r.kind = "x"
                    /\ m.t.r.id \in (Len(M.x) + 1 .. Len(m.x)) \ {r}
                    /\ m.x[m.t.r.id].c = 1
                    /\ under(m.t.r.id)
            /\ go \in PathPages(m, k)
            /\ stay \notin PathPages(m, k)
            /\ Get(m, k) = Found(1)

\* Set and Put of an absent key split, of the index pages on the search path
\* of the key, exactly those with more than most children, the first of them
\* into halves of n children.
SplitRule(most, n) ==
    \A k \in DOMAIN ref :
        (M.t.r.kind = "x" /\ ~Get(M, k).ok) =>
            LET first(path, j) ==
                    /\ M.x[path[j].q].c + 1 > most
                    /\ \A j2 \in 1 .. j - 1 : M.x[path[j2].q].c + 1 <= most
                ruled(path, m) ==
                    \A j \in 1 .. Len(path) :
                        /\ WasSplit(path[j], m) <=>
                               M.x[path[j].q].c + 1 > most
                        /\ first(path, j) => SplitHalves(path[j], m, k, n)
                both(path) ==
                    /\ ruled(path, Set(M, k, 1))
                    /\ ruled(path, Put(M, k, [kind |-> "always", v |-> 1]).m)
            IN  both(PathX(M, Nil, M.t.r, -1, k))

\* C24 as stated (refuted): an index page about to be descended into by Set
\* or Put is split exactly when it has more than 2*kx children, into two
\* pages of kx children each, the middle separator going to the parent or to
\* a new root, and the descent goes on in the half with the search position.
C24_SplitAtChildren == SplitRule(2 * kx, kx)

\* C24, amended: the page is split exactly when it has more than 2*kx
\* separators, that is 2*kx + 2 children, into two pages of kx separators,
\* that is kx + 1 children, each; the middle separator goes to the parent or
\* to a new root, and the descent goes on in the half with the search
\* position.
C24_SplitAtSeparators == SplitRule(2 * kx + 1, kx + 1)

\* After a Set or Put, a key is absent whose search path holds an index root
\* with room and, below it, an index page with 2*kx + 1 separators at whose
\* last child the search leaves it: Set of the key splits that page, the
\* root takes its middle separator, and the key is found under the new
\* right half.
C24_Witness ==
    /\ last.op \in {"Set", "Put"}
    /\ M.t.r.kind = "x"
    /\ \E k \in DOMAIN ref :
           /\ ~Get(M, k).ok
           /\ LET halves(path) ==
                      /\ Len(path) = 2
                      /\ M.x[path[1].q].c <= 2 * kx
                      /\ M.x[path[2].q].c = 2 * kx + 1
                      /\ path[2].i > kx
                      /\ WasSplit(path[2], Set(M, k, 1))
                      /\ ~WasSplit(path[1], Set(M, k, 1))
                      /\ SplitHalves(path[2], Set(M, k, 1), k, kx + 1)
              IN  halves(PathX(M, Nil, M.t.r, -1, k))

\* The leaf at which Delete of k takes its entry out, found as Delete's
\* descent finds it, index pages refilled on the way: the tree m as it is
\* before the entry is taken out, the leaf q, its parent p, its index pi in
\* the parent and the index i of the entry. leaf is FALSE when the descent
\* ends above the leaves or without the key.
RECURSIVE DeletePoint(_, _, _, _, _)
DeletePoint(m, p, q, pi, k) ==
    LET none == [m |-> m, p |-> p, q |-> Nil, pi |-> pi, i |-> 0,
                 leaf |-> FALSE]
        refilled(i) ==
            IF m.x[q.id].c < kx /\ q # m.t.r
            THEN underflowX(m, p, q.id, pi, i)
            ELSE [m |-> m, pp |-> q.id, i |-> i]
        right(s) ==
            DeletePoint(s.m, s.pp, s.m.x[s.pp].x[s.i + 1].ch, s.i + 1, k)
        down(s) == DeletePoint(s.m, s.pp, s.m.x[s.pp].x[s.i].ch, s.i, k)
        at(f) ==
            IF f.ok
            THEN IF q.kind = "x"
                 THEN IF m.d[m.x[q.id].x[f.i].sep].c > kd
                      THEN none
                      ELSE right(refilled(f.i))
                 ELSE [m |-> m, p |-> p, q |-> q.id, pi |-> pi, i |-> f.i,
                       leaf |-> TRUE]
            ELSE IF q.kind = "x" THEN down(refilled(f.i)) ELSE none
    IN  at(find(m, q, k))

LeafChain(m) == Chain(m, m.t.first, Len(m.d) + 1)

Without(qs, q) == SelectSeq(qs, LAMBDA z : z # q)

XSeps(m, q) == {m.x[q].x[j].sep : j \in 0 .. m.x[q].c - 1}

XChildren(m, q) == {m.x[q].x[j].ch : j \in 0 .. m.x[q].c}

\* One entry went from leaf s to leaf q between a and m, and no page left
\* the tree.
Borrowed(a, m, s, q) ==
    /\ m.d[s].c = a.d[s].c - 1
    /\ m.d[q].c = a.d[q].c + 1
    /\ m.d[q].c >= kd
    /\ m.x = a.x
    /\ m.t.r = a.t.r
    /\ LeafChain(m) = LeafChain(a)
    /\ \A z \in 1 .. Len(a.d) : z \notin {s, q} => m.d[z] = a.d[z]

\* Leaf gone was merged into leaf kept between a and m: gone is out of the
\* chain, kept holds the entries of both, and the parent p has lost the
\* separator and the child reference of gone; when collapse is TRUE and gone
\* was under the only separator of p, kept is the root instead.
Merged(a, m, p, kept, gone, collapse) ==
    /\ LeafChain(m) = Without(LeafChain(a), gone)
    /\ m.t.last = IF a.t.last = gone THEN kept ELSE a.t.last
    /\ m.d[kept].c = a.d[kept].c + a.d[gone].c
    /\ m.d[kept].c >= kd
    /\ \A z \in 1 .. Len(a.d) :
           z \notin {kept, gone} => m.d[z].c = a.d[z].c /\ m.d[z].d = a.d[z].d
    /\ IF collapse /\ a.x[p].c = 1
       THEN m.t.r = DRef(kept)
       ELSE /\ m.t.r = a.t.r
            /\ m.x[p].c = a.x[p].c - 1
            /\ XSeps(m, p) = XSeps(a, p) \ {gone}
            /\ XChildren(m, p) = XChildren(a, p) \ {DRef(gone)}
            /\ \A z \in 1 .. Len(a.x) : z # p => m.x[z] = a.x[z]

\* The repair of leaf q of a, which has lost an entry and holds fewer than
\* kd, as m shows it: an entry borrowed from the left sibling when that
\* holds more than kd, else from the right one when that does, else a merge
\* with the left sibling and, when there is none, with the right one.
Repaired(a, m, p, q, pi, collapse) ==
    LET sided(l, r) ==
            IF l # Nil /\ a.d[l].c > kd THEN Borrowed(a, m, l, q)
            ELSE IF r # Nil /\ a.d[r].c > kd THEN Borrowed(a, m, r, q)
            ELSE IF l # Nil THEN Merged(a, m, p, l, q, collapse)
            ELSE Merged(a, m, p, q, r, collapse)
        of(sib) == sided(sib.l, sib.r)
    IN  of(siblings(a, p, pi))

\* The leaf q of the delete point dp underflows when its entry is taken
\* out: it is not the root and holds kd entries.
Underflows(dp) ==
    dp.leaf /\ DRef(dp.q) # dp.m.t.r /\ dp.m.d[dp.q].c - 1 < kd

RepairRule(collapse) ==
    \A k \in DOMAIN ref :
        Get(M, k).ok =>
            LET ruled(dp, m) ==
                    Underflows(dp) =>
                        /\ Repaired(extract(dp.m, dp.q, dp.i), m,
                                    dp.p, dp.q, dp.pi, collapse)
                        /\ ChainKeys(m) =
                               Sorted({k2 \in DOMAIN ref : Get(M, k2).ok}
                                          \ {k})
            IN  ruled(DeletePoint(M, Nil, M.t.r, -1, k), Delete(M, k).m)

\* C25 as stated (refuted): when Delete leaves a non-root leaf with fewer
\* than kd entries, one entry is borrowed from the left, else the right,
\* sibling under the same parent that holds more than kd and no page is
\* removed; otherwise the leaf is merged with an adjacent sibling, the
\* emptied leaf leaves the chain (t.last following), and the parent loses
\* exactly one separator and one child reference. The leaf then holds at
\* least kd entries.
C25_LeafRepair == RepairRule(FALSE)

\* C25, amended: as stated, but when the merged leaves are the two children
\* of a root with one separator, the root is not changed: the merged leaf
\* becomes the root in its place.
C25_LeafRepairOrCollapse == RepairRule(TRUE)

\* After a Delete that found its key, a key is present whose leaf is the last
\* of three or more under the root and holds kd entries, as does the leaf to
\* its left: Delete of the key merges the two, the left one becomes t.last
\* and the root loses one separator.
C25_Witness ==
    /\ last.op = "Delete"
    /\ last.ok
    /\ M.t.r # NilRef
    /\ \E k \in DOMAIN ref :
           /\ Get(M, k).ok
           /\ LET merged(dp, a, sib, m) ==
                      /\ sib.l # Nil
                      /\ a.d[sib.l].c <= kd
                      /\ a.x[dp.p].c > 1
                      /\ a.t.last = dp.q
                      /\ m.t.last = sib.l
                      /\ m.x[dp.p].c = a.x[dp.p].c - 1
                      /\ Repaired(a, m, dp.p, dp.q, dp.pi, TRUE)
                  at(dp) ==
                      /\ Underflows(dp)
                      /\ merged(dp, extract(dp.m, dp.q, dp.i),
                                siblings(dp.m, dp.p, dp.pi), Delete(M, k).m)
              IN  at(DeletePoint(M, Nil, M.t.r, -1, k))

\* The leftmost leaf under page q.
RECURSIVE Leftmost(_, _)
Leftmost(m, q) ==
    IF q.kind = "x" THEN Leftmost(m, m.x[q.id].x[0].ch) ELSE q.id

KeysUnder(m, q) ==
    LET keys(ks) == {ks[j] : j \in 1 .. Len(ks)}
    IN  keys(KeysOf(m, LeavesUnder(m, q)))

\* Every separator of every index page of the tree m references a leaf of
\* the chain that holds an entry and is the leftmost leaf under the child to
\* its right; the keys under the child to its left are below the first key
\* of that leaf, and the keys under the child to its right are not.
SepValid(m) ==
    LET chained(qs) == {qs[j] : j \in 1 .. Len(qs)}
        valid(x, i, s) ==
            /\ s \in chained(LeafChain(m))
            /\ m.d[s].c >= 1
            /\ s = Leftmost(m, x[i + 1].ch)
            /\ \A k \in KeysUnder(m, x[i].ch) : k < m.d[s].d[0].k
            /\ \A k \in KeysUnder(m, x[i + 1].ch) : k >= m.d[s].d[0].k
    IN  \A q \in IndexesUnder(m, m.t.r) :
            \A i \in 0 .. m.x[q].c - 1 : valid(m.x[q].x, i, m.x[q].x[i].sep)

\* C26: in every state reached by Set, Put and Delete, and after one more
\* Set, Put or Delete of any key, every separator of every index page
\* references a chained leaf with an entry that is the leftmost leaf under
\* child i+1, so the keys under child i are below the separator's key and
\* the keys under child i+1 are at or above it.
C26_SeparatorValid ==
    /\ SepValid(M)
    /\ \A k \in DOMAIN ref :
           /\ SepValid(Set(M, k, 1))
           /\ SepValid(Put(M, k, [kind |-> "always", v |-> 1]).m)
           /\ SepValid(Delete(M, k).m)

\* After a Delete that found its key, the root is an index page over index
\* pages, and a further Delete of a present key moves a child between two of
\* them: the root's first separator then references another leaf, the
\* leftmost one under the root's second child, as it did before.
C26_Witness ==
    /\ last.op = "Delete"
    /\ last.ok
    /\ M.t.r.kind = "x"
    /\ M.x[M.t.r.id].x[0].ch.kind = "x"
    /\ SepValid(M)
    /\ \E k \in DOMAIN ref :
           /\ Get(M, k).ok
           /\ LET turned(m, r) ==
                      /\ m.t.r = M.t.r
                      /\ m.x[r].c = M.x[r].c
                      /\ m.x[r].x[0].sep # M.x[r].x[0].sep
                      /\ m.x[r].x[0].sep = Leftmost(m, m.x[r].x[1].ch)
                      /\ M.x[r].x[0].sep = Leftmost(M, M.x[r].x[1].ch)
                      /\ SepValid(m)
              IN  turned(Delete(M, k).m, M.t.r.id)

\* C27 as stated (refuted): with a tree that is not empty, the root is a leaf
\* exactly when Len() <= 2*kd.
C27_RootLeafIff ==
    tree.r # NilRef => (tree.r.kind = "d" <=> TreeLen(M) <= 2 * kd)

\* C27, amended: with a tree that is not empty, a root that is a leaf has
\* Len() <= 2*kd and a root that is an index page has Len() >= 2*kd; with
\* Len() = 2*kd the root is of either kind.
C27_RootKindBySize ==
    tree.r # NilRef =>
        /\ tree.r.kind \in {"d", "x"}
        /\ tree.r.kind = "d" => TreeLen(M) <= 2 * kd
        /\ tree.r.kind = "x" => TreeLen(M) >= 2 * kd

\* A Delete that found its key has left 2*kd keys under a root that is an
\* index page.
C27_Witness ==
    /\ last.op = "Delete"
    /\ last.ok
    /\ tree.r.kind = "x"
    /\ TreeLen(M) = 2 * kd

\* The number of levels of pages under q, q included.
RECURSIVE Height(_, _)
Height(m, q) ==
    IF q.kind = "x" THEN 1 + Height(m, m.x[q.id].x[0].ch)
    ELSE IF q.kind = "d" THEN 1
    ELSE 0

\* A root that is an index page holds a separator.
RootHolds(m) == m.t.r.kind = "x" => m.x[m.t.r.id].c >= 1

\* Delete of k in the tree merges the two children of a root that holds one
\* separator: two leaves, when the leaf of k is left with fewer than kd
\* entries and its sibling holds no more than kd, or two index pages, when
\* the one on the way to k, present or not, holds fewer than kx separators
\* and its sibling no more than kx. A descent that finds k as a separator
\* whose leaf holds more than kd entries ends there and merges nothing.
MergesUnderRoot(k) ==
    LET root == M.x[M.t.r.id]
        ofLeaves(dp, sib) ==
            /\ Underflows(dp)
            /\ dp.m = M
            /\ \A z \in {sib.l, sib.r} \ {Nil} : M.d[z].c <= kd
        passes(q, f) == ~(f.ok /\ M.d[M.x[q].x[f.i].sep].c > kd)
        ofPages(i, sib) ==
            /\ M.x[root.x[i].ch.id].c < kx
            /\ \A z \in {sib.l, sib.r} \ {Nil} : M.x[z].c <= kx
            /\ passes(root.x[i].ch.id, find(M, root.x[i].ch, k))
        sided(i) ==
            IF root.x[i].ch.kind = "d"
            THEN ofLeaves(DeletePoint(M, Nil, M.t.r, -1, k),
                          siblings(M, M.t.r.id, i))
            ELSE ofPages(i, siblings(M, M.t.r.id, i))
        at(f) ==
            /\ passes(M.t.r.id, f)
            /\ sided(IF f.ok THEN f.i + 1 ELSE f.i)
    IN  /\ M.t.r.kind = "x"
        /\ root.c = 1
        /\ at(find(M, M.t.r, k))

\* The root of m is the first child of the root of the tree, one level less
\* high, over the keys of the tree but k.
Collapsed(m, k) ==
    /\ M.t.r.kind = "x"
    /\ M.x[M.t.r.id].c = 1
    /\ m.t.r = M.x[M.t.r.id].x[0].ch
    /\ Height(m, m.t.r) = Height(M, M.t.r) - 1
    /\ KeysUnder(m, m.t.r) = KeysUnder(M, M.t.r) \ {k}
    /\ ChainKeys(m) = Sorted(KeysUnder(M, M.t.r) \ {k})

\* C28: an index root holds at least one separator between calls; a Delete
\* whose merge of two leaves or two index pages would take the root's only
\* separator makes the merged child the root, one level lower; and a Delete
\* replaces the root by a page only then: a page under the root keeps its
\* place when the pages under it are merged.
C28_RootCollapse ==
    /\ RootHolds(M)
    /\ \A k \in DOMAIN ref :
           LET ruled(m) ==
                   /\ RootHolds(m)
                   /\ MergesUnderRoot(k) => Collapsed(m, k)
                   /\ (m.t.r # M.t.r /\ m.t.r # NilRef) =>
                          MergesUnderRoot(k) /\ Collapsed(m, k)
           IN  /\ RootHolds(Set(M, k, 1))
               /\ ruled(Delete(M, k).m)

\* After a Delete that found its key, the root holds one separator over two
\* index pages, and Delete of a present key merges the two: the merged page
\* is the root, the tree is one level lower and holds the other keys.
C28_Witness ==
    /\ last.op = "Delete"
    /\ last.ok
    /\ M.t.r.kind = "x"
    /\ M.x[M.t.r.id].c = 1
    /\ M.x[M.t.r.id].x[0].ch.kind = "x"
    /\ Height(M, M.t.r) = 3
    /\ \E k \in DOMAIN ref :
           /\ Get(M, k).ok
           /\ MergesUnderRoot(k)
           /\ Collapsed(Delete(M, k).m, k)
           /\ Height(Delete(M, k).m, Delete(M, k).m.t.r) = 2

\* What a call of Next or Prev has to return when the keys it may return
\* are ks and the one to return is the key at the given end of them: that
\* key with no error, and io.EOF when there is none.
Returns(r, ks, low) ==
    IF ks = {} THEN r.err = EOF
    ELSE /\ r.err = NoErr
         /\ r.k \in ks
         /\ \A k2 \in ks : IF low THEN r.k <= k2 ELSE r.k >= k2

\* With the tree m, in which e.k is present, Next from e returns the
\* smallest key above e.k and Prev from e the largest key below it.
SkipsOwnKey(m, e) ==
    /\ Returns(Next(m, e), {k2 \in KeysUnder(m, m.t.r) : k2 > e.k}, TRUE)
    /\ Returns(Prev(m, e), {k2 \in KeysUnder(m, m.t.r) : k2 < e.k}, FALSE)

\* The enumerator is as a Seek that missed its key left it: no Next or Prev
\* was called on it since.
Unmoved == enum # NoEnum /\ enum.err = NoErr /\ ~enum.hit /\ obs = Fresh

\* C29: when Seek(k) has missed k, the enumerator has not been advanced and
\* Set has then inserted k, the first Next() returns the smallest key above
\* k, not k, and the first Prev() the largest key below k; each returns
\* io.EOF when there is no such key. This holds of the enumerator of the
\* state when the last call was that Set, and of Seek and Set of every key
\* absent from the tree of the state.
C29_ResyncSkipsKey ==
    /\ (Unmoved /\ last.op = "Set" /\ Get(M, enum.k).ok /\ enum.ver # tree.ver)
           => SkipsOwnKey(M, enum)
    /\ \A k \in DOMAIN ref :
           ~Get(M, k).ok =>
               /\ ~Seek(M, k).ok
               /\ SkipsOwnKey(Set(M, k, 1), Seek(M, k).e)

\* Seek has missed a key that has keys on both sides, and the last call was
\* the Set that inserted it: Next returns the key above it, Prev the key
\* below it.
C29_Witness ==
    /\ Unmoved
    /\ last.op = "Set"
    /\ enum.ver # tree.ver
    /\ Get(M, enum.k).ok
    /\ Get(M, enum.k - 1).ok
    /\ Get(M, enum.k + 1).ok
    /\ Next(M, enum).err = NoErr
    /\ Next(M, enum).k = enum.k + 1
    /\ Prev(M, enum).err = NoErr
    /\ Prev(M, enum).k = enum.k - 1

\* The last entry the enumerator returned was returned by Prev, and its key
\* is enum.k.
ProducedBack ==
    enum # NoEnum /\ enum.err = NoErr /\ obs.produced /\ ~obs.fwd

\* C30 (refuted by the code): after Prev() has returned key K, whatever Set
\* and Delete were called since, the next Prev() that returns an entry
\* returns a key below K; and when K has been deleted it returns the largest
\* key below K that remains, io.EOF when there is none, and no key above K.
C30_BackwardDecreasing ==
    ProducedBack =>
        /\ Prev(M, enum).err = NoErr => Prev(M, enum).k < enum.k
        /\ ~Get(M, enum.k).ok =>
               Returns(Prev(M, enum),
                       {k2 \in KeysUnder(M, M.t.r) : k2 < enum.k}, FALSE)

\* The part of C30 that the code keeps: while K is present, the next Prev()
\* returns the largest key below K, io.EOF when there is none.
C30_BackwardWhilePresent ==
    (ProducedBack /\ Get(M, enum.k).ok) =>
        Returns(Prev(M, enum),
                {k2 \in KeysUnder(M, M.t.r) : k2 < enum.k}, FALSE)

\* The trees one more call of Set, Put, Delete or Clear can make of the tree
\* of the state, and that tree itself.
AfterOneCall ==
    {M, Clear(M)}
        \cup {Set(M, k, v) : k \in DOMAIN ref, v \in Vals}
        \cup {Put(M, k, [kind |-> "always", v |-> 1]).m : k \in DOMAIN ref}
        \cup {Delete(M, k).m : k \in DOMAIN ref}

\* The last entry the enumerator returned was returned by Next, and its key
\* is enum.k.
ProducedFwd ==
    enum # NoEnum /\ enum.err = NoErr /\ obs.produced /\ obs.fwd

\* C31: with Set, Put, Delete and Clear called between the calls of Next(),
\* an entry that Next() returns is in the tree when it is returned, with the
\* value returned, and its key is above the key the Next() before returned.
C31_ForwardIncreasing ==
    enum # NoEnum =>
        \A m \in AfterOneCall :
            LET ahead(r) ==
                    r.err = NoErr =>
                        /\ Get(m, r.k) = Found(r.v)
                        /\ ProducedFwd => r.k > enum.k
            IN  ahead(Next(m, enum))

\* Next() has returned a key, a Delete has then taken that key out, and
\* Next() now returns a larger key that is in the tree.
C31_Witness ==
    /\ ProducedFwd
    /\ last.op = "Delete"
    /\ last.ok
    /\ ~Get(M, enum.k).ok
    /\ enum.ver # tree.ver
    /\ Next(M, enum).err = NoErr
    /\ Next(M, enum).k > enum.k
    /\ Get(M, Next(M, enum).k).ok

\* Prev() called on the enumerator e that Seek(k) has just made of the tree
\* m: it returns the entry with the smallest key at or above k, as Next()
\* would, and a second Prev() the entry before that one; when no key is at
\* or above k it returns io.EOF, and so does every call after it, whatever
\* is set in between.
PrevAfterSeek(m, k, e) ==
    LET keys == KeysUnder(m, m.t.r)
        stuck(e1) ==
            /\ e1.err = EOF
            /\ Prev(m, e1).err = EOF
            /\ Next(m, e1).err = EOF
            /\ \A k2 \in DOMAIN ref :
                   /\ Prev(Set(m, k2, 1), e1).err = EOF
                   /\ Next(Set(m, k2, 1), e1).err = EOF
        first(p1, n1) ==
            /\ Returns(p1, {k2 \in keys : k2 >= k}, TRUE)
            /\ p1.err = n1.err
            /\ p1.err = NoErr =>
                   /\ p1.k = n1.k
                   /\ p1.v = n1.v
                   /\ Get(m, p1.k) = Found(p1.v)
                   /\ Returns(Prev(m, p1.e), {k2 \in keys : k2 < p1.k}, FALSE)
            /\ p1.err # NoErr => stuck(p1.e)
    IN  first(Prev(m, e), Next(m, e))

Capacity(m) ==
    /\ \A q \in 1 .. Len(m.d) : m.d[q].c \in 0 .. 2 * kd
    /\ \A q \in 1 .. Len(m.x) : m.x[q].c \in 0 .. 2 * kx + 1

\* Page p of m, when there is one, can take one more separator.
HasRoom(m, p) == p # Nil => m.x[p].c <= 2 * kx

\* The heaps inside Set of the absent key k, the tree not empty: after the
\* index splits of the descent, and after the entry that overflow moves to a
\* sibling has moved.
SetSteps(k) ==
    LET moved(ip, sib) ==
            IF ip.m.d[ip.q].c < 2 * kd THEN {}
            ELSE IF LeftHasRoom(ip) THEN {mvL(ip.m, sib.l, ip.q, 1)}
            ELSE IF RightHasRoom(ip) /\ ip.i < 2 * kd
            THEN {mvR(ip.m, ip.q, sib.r, 1)}
            ELSE {}
        at(ip) == {ip.m} \cup moved(ip, siblings(ip.m, ip.p, ip.pi))
    IN  at(InsertPoint(M, Nil, M.t.r, -1, k))

\* The heaps inside Delete of k, the tree not empty: after the index pages
\* on the way were refilled, and after the entry was taken out of its leaf.
DeleteSteps(k) ==
    LET at(dp) ==
            {dp.m} \cup (IF dp.leaf THEN {extract(dp.m, dp.q, dp.i)} ELSE {})
    IN  at(DeletePoint(M, Nil, M.t.r, -1, k))

\* When Set of the absent key k splits a leaf or an index page, the parent
\* of the page has room for the separator that comes up.
RoomAbove(k) ==
    LET leaf(ip) ==
            (/\ ip.m.d[ip.q].c = 2 * kd
             /\ ~LeftHasRoom(ip)
             /\ ~RightHasRoom(ip)) => HasRoom(ip.m, ip.p)
        pages(path) ==
            \A j \in 1 .. Len(path) :
                (/\ M.x[path[j].q].c > 2 * kx
                 /\ \A j2 \in 1 .. j - 1 : M.x[path[j2].q].c <= 2 * kx)
                    => HasRoom(M, path[j].p)
    IN  /\ leaf(InsertPoint(M, Nil, M.t.r, -1, k))
        /\ pages(PathX(M, Nil, M.t.r, -1, k))

\* C33: in every state reached by Set, Put and Delete, in the states inside
\* one more call and after it, a leaf holds at most 2*kd entries and an
\* index page at most 2*kx+1 separators, so that no page is written outside
\* its array; and the parent of a page that is split has room for the
\* separator that comes up.
C33_Capacity ==
    /\ Capacity(M)
    /\ \A k \in DOMAIN ref :
           /\ Capacity(Set(M, k, 1))
           /\ Capacity(Put(M, k, [kind |-> "always", v |-> 1]).m)
           /\ Capacity(Delete(M, k).m)
           /\ M.t.r # NilRef => \A m \in DeleteSteps(k) : Capacity(m)
           /\ (M.t.r # NilRef /\ ~Get(M, k).ok) =>
                  /\ \A m \in SetSteps(k) : Capacity(m)
                  /\ RoomAbove(k)

\* A Set has filled an index page under the root to 2*kx+1 separators by
\* the split of a full leaf, and a key is absent whose search passes that
\* page: Set of the key splits the page first, and the root has room for the
\* separator that comes up.
C33_Witness ==
    /\ last.op = "Set"
    /\ M.t.r.kind = "x"
    /\ \E k \in DOMAIN ref :
           /\ ~Get(M, k).ok
           /\ LET full(path) ==
                      /\ Len(path) = 2
                      /\ M.x[path[2].q].c = 2 * kx + 1
                      /\ M.x[path[1].q].c <= 2 * kx
                      /\ HasRoom(M, path[2].p)
                      /\ Len(Set(M, k, 1).x) = Len(M.x) + 1
                      /\ Set(M, k, 1).x[path[1].q].c = M.x[path[1].q].c + 1
                      /\ \A m \in SetSteps(k) : Capacity(m)
                      /\ Capacity(Set(M, k, 1))
              IN  full(PathX(M, Nil, M.t.r, -1, k))

\* ------------------------------------------------- the calls that only read

\* The tree, an enumerator and every call of the interface: the calls of
\* SpecE with the keys 1 .. MaxRKey, and Get, First, Last and Len.
MaxRKey == 3
RKeys == 1 .. MaxRKey

StepR ==
    \/ \E k \in RKeys : Lag < MaxLag /\ DoSet(k, 1)
    \/ \E k \in RKeys : Lag < MaxLag /\ DoDelete(k)
    \/ Lag < MaxLag /\ DoClear
    \/ \E k \in 0 .. MaxRKey + 1 : DoGet(k)
    \/ DoFirst
    \/ DoLast
    \/ DoLen
    \/ \E k \in 0 .. MaxRKey + 1 : DoSeek(k)
    \/ DoSeekFirst
    \/ DoSeekLast
    \/ DoNext
    \/ DoPrev

SpecR == Init /\ [][StepR]_vars

\* The pages under the root, the leaf chain and the count of a tree, with no
\* enumerator: the version counter, which only an enumerator reads, is left
\* out.
TreeOf(t, d, x) == Canon([t |-> t, d |-> d, x |-> x], NoEnum).m

\* What an enumerator made at key k is in the tree t, d, x: its leaf, its
\* index, its key and its hit.
SeenBy(t, d, x, k) ==
    LET at(m) == Canon(m, Seek(m, k).e) IN at([t |-> t, d |-> d, x |-> x])

Probes == {0} \cup DOMAIN ref \cup {Len(ref) + 1}

\* What Get returns for every key.
Mapping(m) == [k \in Probes |-> Get(m, k)]

\* What SeekFirst and Next return until the io.EOF after the last entry.
Enumerated(m) ==
    LET walked(sf) ==
            IF sf.err = NoErr THEN Run(m, sf.e, TRUE, TreeLen(m) + 1)
            ELSE <<AtEOF>>
    IN  walked(SeekFirst(m))

\* The separators and the children of the index pages of m under its root.
IndexShape(m) ==
    {<<[j \in 0 .. m.x[q].c - 1 |-> m.x[q].x[j].sep],
       [j \in 0 .. m.x[q].c |-> m.x[q].x[j].ch]>> :
        q \in IndexesUnder(m, m.t.r)}

\* C35: Delete of a key that is not in the tree returns false and leaves
\* Len, what Get returns for every key and what a full enumeration returns
\* as they were, also when underflowX moves a child between index pages or
\* merges two of them on the way down.
C35_DeleteAbsent ==
    \A k \in Probes :
        LET same(r) ==
                /\ ~r.ok
                /\ TreeLen(r.m) = TreeLen(M)
                /\ Mapping(r.m) = Mapping(M)
                /\ Enumerated(r.m) = Enumerated(M)
        IN  ~Get(M, k).ok => same(Delete(M, k))

\* The tree has three levels and Delete of an absent key moves a child from
\* one index page to its sibling: the index pages are as many and not the
\* same, and the entries are as they were.
C35_Witness ==
    LET pages(m) == Cardinality(IndexesUnder(m, m.t.r))
        rotates(r) ==
            /\ ~r.ok
            /\ pages(r.m) = pages(M)
            /\ IndexShape(r.m) # IndexShape(M)
            /\ TreeLen(r.m) = TreeLen(M)
            /\ Enumerated(r.m) = Enumerated(M)
    IN  /\ tree.r.kind = "x"
        /\ Height(M, tree.r) >= 3
        /\ \E k \in Probes : ~Get(M, k).ok /\ rotates(Delete(M, k))

\* ---------------------------------------------------- the links of leaves

\* The elements of a sequence.
Range(sq) == {sq[j] : j \in 1 .. Len(sq)}

\* C36: the previous link of the next leaf of every leaf of the tree is that
\* leaf; the first leaf has no previous leaf and the last leaf no next leaf;
\* the leaves from the first leaf along the next links are the leaves under
\* the root; first and last are nil exactly when the root is nil.
C36_LeafLinks ==
    LET under == Range(LeavesUnder(M, tree.r)) IN
    /\ \A q \in under : leaves[q].n # Nil => leaves[leaves[q].n].p = q
    /\ \A q \in under : leaves[q].p # Nil => leaves[leaves[q].p].n = q
    /\ tree.first # Nil => leaves[tree.first].p = Nil
    /\ tree.last # Nil => leaves[tree.last].n = Nil
    /\ Range(LeafChain(M)) = under
    /\ (tree.first = Nil) = (tree.r = NilRef)
    /\ (tree.last = Nil) = (tree.r = NilRef)

\* After a Delete that found its key, the tree has three leaves at least,
\* linked both ways, and Delete of one more key merges two of them: one leaf
\* less is left, and two at least.
C36_Witness ==
    /\ last.op = "Delete"
    /\ last.ok
    /\ Len(LeafChain(M)) >= 3
    /\ \A j \in 2 .. Len(LeafChain(M)) :
           leaves[LeafChain(M)[j]].p = LeafChain(M)[j - 1]
    /\ \E k \in DOMAIN ref :
           Len(LeafChain(Delete(M, k).m)) = Len(LeafChain(M)) - 1

\* ------------------------------------------------------------------ balance

\* How far below page q its leaves are, q itself being at depth n.
RECURSIVE Depths(_, _, _)
RECURSIVE DepthsOfCh(_, _, _, _)
DepthsOfCh(m, q, i, n) ==
    IF i > m.x[q].c THEN {}
    ELSE Depths(m, m.x[q].x[i].ch, n + 1) \cup DepthsOfCh(m, q, i + 1, n)
Depths(m, q, n) ==
    IF q.kind = "d" THEN {n}
    ELSE IF q.kind = "x" THEN DepthsOfCh(m, q.id, 0, n)
    ELSE {}

\* The kinds of the children of index page q.
ChildKinds(m, q) == {m.x[q].x[j].ch.kind : j \in 0 .. m.x[q].c}

Balanced(m) ==
    /\ Cardinality(Depths(m, m.t.r, 0)) <= 1
    /\ \A q \in IndexesUnder(m, m.t.r) :
           ChildKinds(m, q) \in {{"d"}, {"x"}}

\* The pages that siblings (leaf) and underflowX (index) cast are of the
\* kind they are cast to: the children of p next to its child pi.
CastsHold(m, p, pi, kind) ==
    \A j \in {pi - 1, pi + 1} \cap (0 .. m.x[p].c) : m.x[p].x[j].ch.kind = kind

\* C37: between calls, after a Set, a Put or a Delete of any key, and in
\* the heaps inside a Set and a Delete, all leaves are at one depth below
\* the root and the children of an index page are all leaves or all index
\* pages; the pages next to a child of an index page are of the kind of that
\* child, the kind siblings and underflowX cast them to.
C37_Balance ==
    /\ Balanced(M)
    /\ \A q \in IndexesUnder(M, tree.r) : \A j \in 0 .. indexes[q].c :
           CastsHold(M, q, j, indexes[q].x[j].ch.kind)
    /\ \A k \in DOMAIN ref :
           /\ Balanced(Set(M, k, 1))
           /\ Balanced(Put(M, k, [kind |-> "always", v |-> 1]).m)
           /\ Balanced(Delete(M, k).m)
           /\ tree.r # NilRef => \A m \in DeleteSteps(k) : Balanced(m)
           /\ (tree.r # NilRef /\ ~Get(M, k).ok) =>
                  \A m \in SetSteps(k) : Balanced(m)

\* After a Set, the tree has three levels, the root having been split, and
\* Delete of a key leaves a tree of two.
C37_Witness ==
    /\ last.op = "Set"
    /\ Depths(M, tree.r, 0) = {2}
    /\ indexes[tree.r.id].c = 1
    /\ \E k \in DOMAIN ref : Depths(Delete(M, k).m, Delete(M, k).m.t.r, 0) = {1}

\* ------------------------------------------------ an enumerator and Clear

\* The trees that zero, one or two calls of Set make of m.
Refilled(m) ==
    {m} \cup {Set(m, k, 1) : k \in EKeys}
        \cup {Set(Set(m, k, 1), k2, 1) : k, k2 \in EKeys}

\* Next and Prev of e return io.EOF, the tree being m, and leave an
\* enumerator of which they do again.
Exhausted(m, e) ==
    /\ Next(m, e).err = EOF
    /\ Prev(m, e).err = EOF
    /\ Next(m, Next(m, e).e).err = EOF
    /\ Prev(m, Prev(m, e).e).err = EOF

Handed(m, k) ==
    IF Get(m, k).ok THEN <<Get(m, k).v, TRUE>> ELSE <<0, FALSE>>

\* Where Put(k) ends in m: at a separator of an index page, at an entry of a
\* leaf, at a leaf that does not hold k, or at the nil root.
RECURSIVE PutPath(_, _, _)
PutPath(m, q, k) ==
    LET at(f) ==
            IF q.kind = "x"
            THEN IF f.ok THEN "separator"
                 ELSE PutPath(m, m.x[q.id].x[f.i].ch, k)
            ELSE IF f.ok THEN "leaf" ELSE "absent"
    IN  IF q = NilRef THEN "empty" ELSE at(find(m, q, k))

\* C39: Put calls its updater once, with the value Get returns for k and
\* true when k is in the tree and with the zero value and false when it is
\* not, whichever way the descent ends; what Put returns is what that one
\* call decides.
C39_UpdaterOnce ==
    \A k \in DOMAIN ref : \A u \in Updaters :
        LET once(r, w) ==
                /\ Len(r.calls) = 1
                /\ r.calls[1] = Handed(M, k)
                /\ r.written = w.write
                /\ r.oldV = Handed(M, k)[1]
        IN  once(Put(M, k, u), upd(u, Handed(M, k)[1], Handed(M, k)[2]))

\* After a Put that wrote, Put of one key ends at a separator of the root,
\* Put of another at an entry of a leaf and Put of a third at a leaf that
\* does not hold it, and the updater is called with the value of the first
\* and true and with the zero value and false for the third.
C39_Witness ==
    /\ last.op = "Put"
    /\ last.ok
    /\ \E k \in DOMAIN ref :
           /\ PutPath(M, tree.r, k) = "separator"
           /\ Put(M, k, [kind |-> "never", v |-> 1]).calls = <<<<ref[k], TRUE>>>>
    /\ \E k \in DOMAIN ref :
           /\ PutPath(M, tree.r, k) = "leaf"
           /\ Put(M, k, [kind |-> "never", v |-> 1]).calls = <<<<ref[k], TRUE>>>>
    /\ \E k \in DOMAIN ref :
           /\ PutPath(M, tree.r, k) = "absent"
           /\ Put(M, k, [kind |-> "never", v |-> 1]).calls = <<<<0, FALSE>>>>

====
